---- MODULE Spec2Model ----
(***************************************************************************)
(* Model of terraform-provider-inferadb: the transport client              *)
(* (internal/client) and the resource adapters (internal/provider) driving *)
(* one managed entity of one resource type against the remote Control API. *)
(* Strings are TLA+ strings; Go string functions are computed character by *)
(* character with Len, SubSeq and \o.                                      *)
(***************************************************************************)
EXTENDS Integers, Sequences, FiniteSets, TLC

(***************************************************************************)
(* Bounds of the model.                                                    *)
(***************************************************************************)
\* Longest import ID, in characters, handed to ImportState.
MaxImportLen == 5
\* Number of entities the remote service creates for the address in one behaviour.
MaxCreates == 1

(***************************************************************************)
(* Go string helpers (package strings).                                    *)
(***************************************************************************)
\* strings.Contains(s, substr)
Contains(s, substr) ==
    \E i \in 1..(Len(s) - Len(substr) + 1) : SubSeq(s, i, i + Len(substr) - 1) = substr

\* Index of the first "/" in s, 0 when there is none.
IndexSlash(s) ==
    IF \E i \in 1..Len(s) : SubSeq(s, i, i) = "/"
    THEN CHOOSE i \in 1..Len(s) :
            /\ SubSeq(s, i, i) = "/"
            /\ \A j \in 1..(i - 1) : SubSeq(s, j, j) # "/"
    ELSE 0

\* strings.Split(s, "/"): the segments between slashes; always at least one.
RECURSIVE Split(_)
Split(s) ==
    IF IndexSlash(s) = 0 THEN <<s>>
    ELSE <<SubSeq(s, 1, IndexSlash(s) - 1)>> \o Split(SubSeq(s, IndexSlash(s) + 1, Len(s)))

\* strings.TrimSpace(s): s without leading and trailing white space.
RECURSIVE TrimSpace(_)
TrimSpace(s) ==
    IF Len(s) = 0 THEN s
    ELSE IF SubSeq(s, 1, 1) = " " THEN TrimSpace(SubSeq(s, 2, Len(s)))
    ELSE IF SubSeq(s, Len(s), Len(s)) = " " THEN TrimSpace(SubSeq(s, 1, Len(s) - 1))
    ELSE s

(***************************************************************************)
(* terraform-plugin-framework values.  A types.String / types.Bool is a    *)
(* string ("true" / "false" for a Bool), or one of two markers that no     *)
(* real value equals.                                                      *)
(***************************************************************************)
\* types.StringNull(), types.BoolNull()
Null == "\\null"
\* an unknown (not yet computed) planned value
Unknown == "\\unknown"
\* (types.String).ValueString(): the empty string for null and unknown
ValueString(v) == IF v \in {Null, Unknown} THEN "" ELSE v

(***************************************************************************)
(* Resource types and their schemas.                                       *)
(***************************************************************************)
ResourceTypes ==
    {"organization", "vault", "client", "client_certificate",
     "team", "team_member", "vault_user_grant", "vault_team_grant"}

\* The attributes of each resource model (tfsdk tags).
Attributes(t) ==
    CASE t = "organization" -> {"id", "name", "tier", "created_at", "suspended_at"}
      [] t = "vault" -> {"id", "organization_id", "name", "description", "sync_status", "created_at"}
      [] t = "client" -> {"id", "organization_id", "vault_id", "name", "is_active", "created_at"}
      [] t = "client_certificate" ->
            {"id", "organization_id", "client_id", "name", "kid", "public_key_pem",
             "private_key_pem", "is_active", "revoked_at", "created_at"}
      [] t = "team" -> {"id", "organization_id", "name", "description", "created_at"}
      [] t = "team_member" -> {"id", "organization_id", "team_id", "user_id", "role", "created_at"}
      [] t = "vault_user_grant" ->
            {"id", "organization_id", "vault_id", "user_id", "role", "granted_at", "granted_by_user_id"}
      [] t = "vault_team_grant" ->
            {"id", "organization_id", "vault_id", "team_id", "role", "granted_at", "granted_by_user_id"}

\* Attributes the configuration supplies (Required or Optional in the schema).
ConfigAttributes(t) ==
    CASE t = "organization" -> {"name", "tier"}
      [] t = "vault" -> {"organization_id", "name", "description"}
      [] t = "client" -> {"organization_id", "vault_id", "name"}
      [] t = "client_certificate" -> {"organization_id", "client_id", "name"}
      [] t = "team" -> {"organization_id", "name", "description"}
      [] t = "team_member" -> {"organization_id", "team_id", "user_id", "role"}
      [] t = "vault_user_grant" -> {"organization_id", "vault_id", "user_id", "role"}
      [] t = "vault_team_grant" -> {"organization_id", "vault_id", "team_id", "role"}

\* Computed attributes planned with stringplanmodifier.UseStateForUnknown().
UseStateForUnknown(t) ==
    CASE t = "organization" -> {"id", "created_at"}
      [] t = "vault" -> {"id", "created_at"}
      [] t = "client" -> {"id", "is_active", "created_at"}
      [] t = "client_certificate" -> {"id", "kid", "public_key_pem", "private_key_pem", "created_at"}
      [] t = "team" -> {"id", "created_at"}
      [] t = "team_member" -> {"id", "created_at"}
      [] t = "vault_user_grant" -> {"id", "granted_at", "granted_by_user_id"}
      [] t = "vault_team_grant" -> {"id", "granted_at", "granted_by_user_id"}

\* The ancestor-scope attributes of each type, in import-ID order.
ScopeAttributes(t) ==
    CASE t = "organization" -> <<>>
      [] t \in {"vault", "client", "team"} -> <<"organization_id">>
      [] t = "client_certificate" -> <<"organization_id", "client_id">>
      [] t = "team_member" -> <<"organization_id", "team_id">>
      [] t \in {"vault_user_grant", "vault_team_grant"} -> <<"organization_id", "vault_id">>

\* The null object of a schema: every attribute null.
NullAttrs(t) == [a \in Attributes(t) |-> Null]

\* Tracked state that does not exist (after RemoveResource, before Create).
NoState(t) == [exists |-> FALSE, attrs |-> NullAttrs(t)]

(***************************************************************************)
(* The wire: HTTP responses as the http stack hands them to doRequest.     *)
(***************************************************************************)
\* http.StatusNotFound
StatusNotFound == 404
\* the status of a successful create / read / update reply
StatusOK == 200
\* the status of a failing reply that is not a 404
StatusInternalServerError == 500

\* A response body.  form is "empty" (no bytes), "text" (bytes that are not
\* JSON), "error" (the JSON object {"error","code","message"}) or "entity" (a JSON
\* object holding an entity: under the key wrapper when wrapper # "", with
\* its identifier fields encoded as JSON strings or JSON numbers).
EmptyBody ==
    [form |-> "empty", raw |-> "", error |-> "", code |-> "", message |-> "",
     wrapper |-> "", idenc |-> "string", obj |-> <<>>]
TextBody(text) == [EmptyBody EXCEPT !.form = "text", !.raw = text]
ErrorBody(error, code, message) ==
    [EmptyBody EXCEPT !.form = "error", !.error = error, !.code = code, !.message = message]
EntityBody(wrapper, idenc, obj) ==
    [EmptyBody EXCEPT !.form = "entity", !.wrapper = wrapper, !.idenc = idenc, !.obj = obj]
\* The JSON text null, and a JSON object one of whose error, code and message
\* members is not a string (raw is the text of the body).
NullBody == [EmptyBody EXCEPT !.form = "null", !.raw = "null"]
MistypedBody(raw) == [EmptyBody EXCEPT !.form = "mistyped", !.raw = raw]

\* A reply of the server, and a round trip that yields no reply (neterr # "").
\* via holds the redirects http.Client.Do followed before it got there.
Reply(status, body) == [neterr |-> "", status |-> status, body |-> body, via |-> <<>>]
NoReply(neterr) == [neterr |-> neterr, status |-> 0, body |-> EmptyBody, via |-> <<>>]
\* The redirect of a front that moves plain HTTP to HTTPS on the same host:
\* 308 Permanent Redirect, which keeps the method and the body.
UpgradeRedirect == [status |-> 308, scheme |-> "https"]

(***************************************************************************)
(* Go errors.  type is the dynamic type of the error value, which is what  *)
(* a type assertion to the APIError pointer type inspects; text is         *)
(* err.Error().                                                            *)
(***************************************************************************)
NilError == [type |-> "nil", text |-> "", StatusCode |-> 0, Message |-> "", Code |-> ""]

\* APIError.Error()
APIErrorText(status, code, message) ==
    IF code # ""
    THEN "InferaDB API error (" \o ToString(status) \o "): " \o code \o " - " \o message
    ELSE "InferaDB API error (" \o ToString(status) \o "): " \o message

\* &APIError{StatusCode, Message, Code}
APIError(status, message, code) ==
    [type |-> "*client.APIError", text |-> APIErrorText(status, code, message),
     StatusCode |-> status, Message |-> message, Code |-> code]

\* fmt.Errorf(prefix + ": %w", err): a *fmt.wrapError around err
Errorf(prefix, err) ==
    [type |-> "*fmt.wrapError", text |-> prefix \o ": " \o err.text,
     StatusCode |-> 0, Message |-> "", Code |-> ""]

\* fmt.Errorf(prefix + ": %w", err) around an error of the http or json package
ErrorfText(prefix, text) ==
    [type |-> "*fmt.wrapError", text |-> prefix \o ": " \o text,
     StatusCode |-> 0, Message |-> "", Code |-> ""]

\* APIError.IsNotFound()
IsNotFound(e) == e.StatusCode = StatusNotFound

\* The adapters' condition: err type-asserts to APIError and apiErr.IsNotFound().
AssertAPIErrorNotFound(err) == err.type = "*client.APIError" /\ IsNotFound(err)

\* The condition of the certificate adapter:
\* strings.Contains(err.Error(), "404") || strings.Contains(err.Error(), "not found")
TextSaysNotFound(err) == Contains(err.text, "404") \/ Contains(err.text, "not found")

(***************************************************************************)
(* Wire types (client models) and JSON decoding.                           *)
(***************************************************************************)
\* a nil *string of a wire struct
Nil == "\\nil"

\* The fields of each wire struct that the adapters read.
WireFields(t) ==
    CASE t = "organization" -> {"id", "name", "tier", "created_at", "suspended_at"}
      [] t = "vault" -> {"id", "organization_id", "name", "description", "sync_status", "created_at"}
      [] t = "client" -> {"id", "organization_id", "vault_id", "name", "is_active", "created_at"}
      [] t = "client_certificate" ->
            {"id", "client_id", "name", "kid", "public_key_pem", "private_key_pem",
             "is_active", "created_at", "revoked_at"}
      [] t = "team" -> {"id", "organization_id", "name", "description", "created_at"}
      [] t = "team_member" -> {"id", "team_id", "user_id", "role", "created_at"}
      [] t = "vault_user_grant" -> {"id", "vault_id", "user_id", "role", "granted_at", "granted_by_user_id"}
      [] t = "vault_team_grant" -> {"id", "vault_id", "team_id", "role", "granted_at", "granted_by_user_id"}

\* The zero value of a wire struct: "" strings, false bools, nil pointers.
ZeroStruct(t) ==
    [f \in WireFields(t) |->
        IF f \in {"suspended_at", "revoked_at"} THEN Nil
        ELSE IF f = "is_active" THEN "false"
        ELSE ""]

\* Types whose identifier fields are declared SnowflakeID (the others are string).
HasSnowflakeIDs(t) == t \in {"organization", "vault", "client", "team"}

\* The JSON key under which a method expects the entity ("" = not wrapped):
\* the *Response structs wrap, GetVault and GetTeam decode the entity directly.
ExpectedWrapper(t, method) ==
    CASE t = "organization" -> "organization"
      [] t = "client" -> "client"
      [] t = "vault" -> IF method = "GET" THEN "" ELSE "vault"
      [] t = "team" -> IF method = "GET" THEN "" ELSE "team"
      [] OTHER -> ""

\* The identifier fields of the wire struct of t.
IDFields(t) ==
    WireFields(t) \cap {"id", "organization_id", "vault_id", "client_id", "team_id",
                        "user_id", "granted_by_user_id"}

\* The largest int64, in decimal; the decimal digits.
MaxInt64 == "9223372036854775807"
Digits == {"0", "1", "2", "3", "4", "5", "6", "7", "8", "9"}
DigitValue(c) == CHOOSE i \in 0..9 : SubSeq("0123456789", i + 1, i + 1) = c

\* a <= b for numerals a and b of the same length.
RECURSIVE DigitsLeq(_, _)
DigitsLeq(a, b) ==
    IF Len(a) = 0 THEN TRUE
    ELSE IF DigitValue(SubSeq(a, 1, 1)) < DigitValue(SubSeq(b, 1, 1)) THEN TRUE
    ELSE IF DigitValue(SubSeq(a, 1, 1)) > DigitValue(SubSeq(b, 1, 1)) THEN FALSE
    ELSE DigitsLeq(SubSeq(a, 2, Len(a)), SubSeq(b, 2, Len(b)))

\* json.Unmarshal(data, &num) for num int64 and a JSON number without sign,
\* fraction or exponent: it fails when the value is above the largest int64.
FitsInt64(text) ==
    /\ Len(text) > 0
    /\ \A i \in 1..Len(text) : SubSeq(text, i, i) \in Digits
    /\ \/ Len(text) < Len(MaxInt64)
       \/ Len(text) = Len(MaxInt64) /\ DigitsLeq(text, MaxInt64)

\* strconv.FormatInt(num, 10) of the parsed number: no leading zeros.
RECURSIVE FormatInt(_)
FormatInt(text) ==
    IF Len(text) > 1 /\ SubSeq(text, 1, 1) = "0" THEN FormatInt(SubSeq(text, 2, Len(text)))
    ELSE text

\* SnowflakeID.UnmarshalJSON(data), data a JSON string or a JSON number
\* ([kind, text], text without the quotes): the string as it is, else the
\* number as an int64 in decimal, else an error.
SnowflakeIDUnmarshalJSON(data) ==
    IF data.kind = "null" THEN [ok |-> TRUE, value |-> ""]
    ELSE IF data.kind = "string" THEN [ok |-> TRUE, value |-> data.text]
    ELSE IF FitsInt64(data.text) THEN [ok |-> TRUE, value |-> FormatInt(data.text)]
    ELSE [ok |-> FALSE, value |-> ""]

\* json.Unmarshal(respBody, result) for a non-empty body: unknown keys are
\* ignored, so an object of another shape leaves the zero struct; an
\* identifier that is a JSON number is rejected by a string field and
\* handed to UnmarshalJSON by a SnowflakeID field ("" is an absent field).
\* The JSON kind of member f of an entity body: under the id encoding
\* "null" the member id is the JSON value null and the others are strings.
MemberKind(body, f) ==
    IF body.idenc = "null" THEN (IF f = "id" THEN "null" ELSE "string") ELSE body.idenc

Unmarshal(body, t, method) ==
    IF body.form = "text"
    THEN [ok |-> FALSE, text |-> "invalid character", value |-> ZeroStruct(t)]
    ELSE IF body.form # "entity" \/ body.wrapper # ExpectedWrapper(t, method)
    THEN [ok |-> TRUE, text |-> "", value |-> ZeroStruct(t)]
    ELSE IF body.idenc = "number" /\ ~HasSnowflakeIDs(t)
    THEN [ok |-> FALSE,
          text |-> "json: cannot unmarshal number into Go struct field of type string",
          value |-> ZeroStruct(t)]
    ELSE IF \E f \in IDFields(t) \cap DOMAIN body.obj :
                /\ HasSnowflakeIDs(t)
                /\ body.obj[f] # ""
                /\ ~SnowflakeIDUnmarshalJSON([kind |-> MemberKind(body, f), text |-> body.obj[f]]).ok
    THEN [ok |-> FALSE,
          text |-> "cannot unmarshal "
                      \o body.obj[CHOOSE f \in IDFields(t) \cap DOMAIN body.obj :
                                      /\ body.obj[f] # ""
                                      /\ ~SnowflakeIDUnmarshalJSON(
                                              [kind |-> MemberKind(body, f), text |-> body.obj[f]]).ok]
                      \o " into SnowflakeID",
          value |-> ZeroStruct(t)]
    ELSE [ok |-> TRUE, text |-> "",
          value |-> [f \in WireFields(t) |->
                        IF f \notin DOMAIN body.obj THEN ZeroStruct(t)[f]
                        ELSE IF f \in IDFields(t) /\ HasSnowflakeIDs(t) /\ body.obj[f] # ""
                        THEN SnowflakeIDUnmarshalJSON(
                                [kind |-> MemberKind(body, f), text |-> body.obj[f]]).value
                        ELSE IF MemberKind(body, f) = "null" THEN ZeroStruct(t)[f]
                        ELSE body.obj[f]]]

(***************************************************************************)
(* Transport client.                                                       *)
(***************************************************************************)
\* The Op of the *url.Error that http.Client.Do returns for a method.
UrlErrorOp(method) ==
    CASE method = "GET" -> "Get"
      [] method = "POST" -> "Post"
      [] method = "PATCH" -> "Patch"
      [] method = "DELETE" -> "Delete"

\* client.New(cfg)
New(cfg) == [baseURL |-> cfg.Endpoint, sessionToken |-> cfg.SessionToken]

\* net/http validCookieValueByte, over the printable characters: a double
\* quote, a semicolon and a backslash cannot appear in a cookie value.
validCookieValueByte(b) == b \notin {"\"", ";", "\\"}

\* net/http sanitizeOrWarn: the invalid bytes of v are dropped.
RECURSIVE sanitizeOrWarn(_)
sanitizeOrWarn(v) ==
    IF v = "" THEN ""
    ELSE (IF validCookieValueByte(SubSeq(v, 1, 1)) THEN SubSeq(v, 1, 1) ELSE "")
             \o sanitizeOrWarn(SubSeq(v, 2, Len(v)))

\* strings.ContainsAny(v, " ,")
RECURSIVE ContainsSpaceOrComma(_)
ContainsSpaceOrComma(v) ==
    /\ v # ""
    /\ \/ SubSeq(v, 1, 1) \in {" ", ","}
       \/ ContainsSpaceOrComma(SubSeq(v, 2, Len(v)))

\* net/http sanitizeCookieValue: what Request.AddCookie writes after the
\* '=' of the Cookie header for a cookie of value v.
sanitizeCookieValue(v) ==
    IF sanitizeOrWarn(v) = "" THEN ""
    ELSE IF ContainsSpaceOrComma(sanitizeOrWarn(v)) THEN "\"" \o sanitizeOrWarn(v) \o "\""
    ELSE sanitizeOrWarn(v)

\* The request doRequest builds: the URL is c.baseURL+path, and the cookie
\* infera_session is added when the client holds a session token.  Value
\* is the text of the cookie in the request's Cookie header.
NewRequest(c, method, path) ==
    [method |-> method,
     url |-> c.baseURL \o path,
     cookies |-> IF c.sessionToken # ""
                 THEN <<[Name |-> "infera_session",
                         Value |-> sanitizeCookieValue(c.sessionToken)]>>
                 ELSE <<>>]

\* The request http.Client.Do sends after a redirect to the same host: the
\* same method, headers and body, to the URL of the Location header.
FollowUp(req, redirect) ==
    [req EXCEPT !.url = redirect.scheme \o SubSeq(req.url, 5, Len(req.url))]

\* httpClient.Do wrapped in a retry: a round trip that met a transport
\* failure or a 5xx status is sent once more.
DoResendingFailures(req, resp) ==
    IF resp.neterr # "" \/ resp.status >= 500
    THEN <<req, req>>
    ELSE <<req>> \o [i \in 1..Len(resp.via) |-> FollowUp(req, resp.via[i])]

\* The requests c.httpClient.Do(req) sends for an exchange that ends in
\* resp: req, and one more for every redirect the default policy follows.
Do(req, resp) == <<req>> \o [i \in 1..Len(resp.via) |-> FollowUp(req, resp.via[i])]

\* Client.doRequest of client c, given the outcome resp of its call of
\* httpClient.Do.  wantResult is result != nil.  Yields the error, the
\* decoded result and the requests sent.
doRequest(c, method, path, resp, t, wantResult) ==
    LET req == NewRequest(c, method, path)
        out ==
            IF resp.neterr # ""
            THEN [err |-> ErrorfText("request failed",
                             UrlErrorOp(method) \o " \"" \o req.url \o "\": " \o resp.neterr),
                  result |-> ZeroStruct(t)]
            ELSE IF resp.status >= 400
            THEN IF resp.body.form \in {"empty", "text", "mistyped"}
                 THEN [err |-> APIError(resp.status, resp.body.raw, ""), result |-> ZeroStruct(t)]
                 ELSE [err |-> APIError(resp.status,
                                  IF resp.body.message = "" THEN resp.body.error
                                  ELSE resp.body.message,
                                  resp.body.code),
                       result |-> ZeroStruct(t)]
            ELSE IF wantResult /\ resp.body.form # "empty"
            THEN IF Unmarshal(resp.body, t, method).ok
                 THEN [err |-> NilError, result |-> Unmarshal(resp.body, t, method).value]
                 ELSE [err |-> ErrorfText("failed to unmarshal response",
                                          Unmarshal(resp.body, t, method).text),
                       result |-> ZeroStruct(t)]
            ELSE [err |-> NilError, result |-> ZeroStruct(t)]
    IN  [err |-> out.err, result |-> out.result, sent |-> Do(req, resp)]

(***************************************************************************)
(* Client methods: paths, error wrapping, tier normalisation.              *)
(***************************************************************************)
\* The collection path a Create posts to (fmt.Sprintf of the Create* methods).
CollectionPath(t, a) ==
    CASE t = "organization" -> "/v1/organizations"
      [] t = "vault" -> "/v1/organizations/" \o a.organization_id \o "/vaults"
      [] t = "client" -> "/v1/organizations/" \o a.organization_id \o "/clients"
      [] t = "team" -> "/v1/organizations/" \o a.organization_id \o "/teams"
      [] t = "client_certificate" ->
            "/v1/organizations/" \o a.organization_id \o "/clients/" \o a.client_id \o "/certificates"
      [] t = "team_member" ->
            "/v1/organizations/" \o a.organization_id \o "/teams/" \o a.team_id \o "/members"
      [] t = "vault_user_grant" ->
            "/v1/organizations/" \o a.organization_id \o "/vaults/" \o a.vault_id \o "/user-grants"
      [] t = "vault_team_grant" ->
            "/v1/organizations/" \o a.organization_id \o "/vaults/" \o a.vault_id \o "/team-grants"

\* The path of one entity (Get*, Update*, Delete* methods).
ItemPath(t, a) == CollectionPath(t, a) \o "/" \o a.id

\* The noun of the wrapping message "failed to <verb> <noun>".
ErrorNoun(t) ==
    CASE t = "organization" -> "organization"
      [] t = "vault" -> "vault"
      [] t = "client" -> "client"
      [] t = "team" -> "team"
      [] t = "client_certificate" -> "certificate"
      [] t = "team_member" -> "team member"
      [] t = "vault_user_grant" -> "user grant"
      [] t = "vault_team_grant" -> "team grant"

\* The verb of the wrapping message; team members are added and removed.
ErrorVerb(t, method) ==
    CASE method = "POST" -> IF t = "team_member" THEN "add" ELSE "create"
      [] method = "GET" -> "get"
      [] method = "PATCH" -> "update"
      [] method = "DELETE" -> IF t = "team_member" THEN "remove" ELSE "delete"

\* strings.HasPrefix, strings.HasSuffix, strings.TrimPrefix, strings.TrimSuffix
HasPrefix(s, prefix) == Len(s) >= Len(prefix) /\ SubSeq(s, 1, Len(prefix)) = prefix
HasSuffix(s, suffix) ==
    Len(s) >= Len(suffix) /\ SubSeq(s, Len(s) - Len(suffix) + 1, Len(s)) = suffix
TrimPrefix(s, prefix) == IF HasPrefix(s, prefix) THEN SubSeq(s, Len(prefix) + 1, Len(s)) ELSE s
TrimSuffix(s, suffix) == IF HasSuffix(s, suffix) THEN SubSeq(s, 1, Len(s) - Len(suffix)) ELSE s

\* The lower-case form of one character.
LowerChar(c) ==
    IF \E i \in 1..26 : SubSeq("ABCDEFGHIJKLMNOPQRSTUVWXYZ", i, i) = c
    THEN LET i == CHOOSE j \in 1..26 : SubSeq("ABCDEFGHIJKLMNOPQRSTUVWXYZ", j, j) = c
         IN SubSeq("abcdefghijklmnopqrstuvwxyz", i, i)
    ELSE c

\* strings.ToLower(s)
RECURSIVE ToLower(_)
ToLower(s) ==
    IF Len(s) = 0 THEN s ELSE LowerChar(SubSeq(s, 1, 1)) \o ToLower(SubSeq(s, 2, Len(s)))

\* normalizeTier: API tier format (TIER_DEV_V1) to Terraform format (dev).
normalizeTier(apiTier) ==
    IF apiTier = "TIER_DEV_V1" THEN "dev"
    ELSE IF apiTier = "TIER_PRO_V1" THEN "pro"
    ELSE IF apiTier = "TIER_MAX_V1" THEN "max"
    ELSE IF HasPrefix(apiTier, "TIER_") /\ HasSuffix(apiTier, "_V1")
    THEN ToLower(TrimSuffix(TrimPrefix(apiTier, "TIER_"), "_V1"))
    ELSE apiTier

\* Default endpoint of the provider, the base URL of the client.
BaseURL == "https://api.inferadb.com"

\* A client method that hands the decoded organization on as it arrived.
ClientCallKeepingTier(c, t, method, path, resp) ==
    LET r == doRequest(c, method, path, resp, t, method # "DELETE")
    IN  IF r.err # NilError
        THEN [err |-> Errorf("failed to " \o ErrorVerb(t, method) \o " " \o ErrorNoun(t), r.err),
              obj |-> ZeroStruct(t), sent |-> r.sent]
        ELSE [err |-> NilError, obj |-> r.result, sent |-> r.sent]

\* A client method (Create*, Get*, Update*, Delete*, AddTeamMember, ...): one
\* doRequest; an error is wrapped with fmt.Errorf("failed to ...: %w") and nil
\* is returned for the entity; organization methods normalise the tier.
ClientCall(c, t, method, path, resp) ==
    LET r == doRequest(c, method, path, resp, t, method # "DELETE")
    IN  IF r.err # NilError
        THEN [err |-> Errorf("failed to " \o ErrorVerb(t, method) \o " " \o ErrorNoun(t), r.err),
              obj |-> ZeroStruct(t), sent |-> r.sent]
        ELSE [err |-> NilError,
              obj |-> IF t = "organization"
                      THEN [r.result EXCEPT !.tier = normalizeTier(@)]
                      ELSE r.result,
              sent |-> r.sent]

(***************************************************************************)
(* Resource adapters.  A handler is given the model it read from the plan  *)
(* or prior state, the outcome of its client call, and the response state  *)
(* the framework prepared (null for Create, the prior state for Read and   *)
(* Update); it yields the response state and the diagnostics.              *)
(***************************************************************************)
\* resp.Diagnostics.AddError(summary, detail)
Diag(summary, detail) == [summary |-> summary, detail |-> detail]
\* resp.State.Set(ctx, &model)
Tracked(attrs) == [exists |-> TRUE, attrs |-> attrs]
\* resp.State.RemoveResource(ctx)
RemoveResource(respState) ==
    [exists |-> FALSE, attrs |-> [a \in DOMAIN respState.attrs |-> Null]]
\* json.Marshal of a request struct: omit lists its omitempty fields
Marshal(req, omit) ==
    [k \in {f \in DOMAIN req : ~(f \in omit /\ req[f] = "")} |-> req[k]]
\* types.StringValue(s) if s != "" else types.StringNull()
StringOrNull(s) == IF s # "" THEN s ELSE Null
\* types.StringValue(*p) if p != nil && *p != "" else types.StringNull()
PtrStringOrNull(p) == IF p # Nil /\ p # "" THEN p ELSE Null
\* types.StringValue(*p) if p != nil else types.StringNull()
PtrOrNull(p) == IF p # Nil THEN p ELSE Null

\* ---- inferadb_organization --------------------------------------------
OrganizationCreateBody(plan) ==
    Marshal([name |-> ValueString(plan.name), tier |-> ValueString(plan.tier)], {"tier"})

OrganizationResourceCreate(plan, call, respState) ==
    IF call.err # NilError
    THEN [state |-> respState,
          diags |-> <<Diag("Error creating organization",
                           "Could not create organization: " \o call.err.text)>>]
    ELSE [state |-> Tracked([plan EXCEPT
                      !.id = call.obj.id,
                      !.name = call.obj.name,
                      !.tier = call.obj.tier,
                      !.created_at = call.obj.created_at,
                      !.suspended_at = PtrStringOrNull(call.obj.suspended_at)]),
          diags |-> <<>>]

OrganizationResourceRead(state, call, respState) ==
    IF call.err # NilError
    THEN IF AssertAPIErrorNotFound(call.err)
         THEN [state |-> RemoveResource(respState), diags |-> <<>>]
         ELSE [state |-> respState,
               diags |-> <<Diag("Error reading organization",
                                "Could not read organization " \o ValueString(state.id)
                                    \o ": " \o call.err.text)>>]
    ELSE [state |-> Tracked([state EXCEPT
                      !.name = call.obj.name,
                      !.tier = call.obj.tier,
                      !.created_at = call.obj.created_at,
                      !.suspended_at = PtrStringOrNull(call.obj.suspended_at)]),
          diags |-> <<>>]

OrganizationUpdateBody(plan) ==
    Marshal([name |-> ValueString(plan.name), tier |-> ValueString(plan.tier)], {"name", "tier"})

OrganizationResourceUpdate(plan, call, respState) ==
    IF call.err # NilError
    THEN [state |-> respState,
          diags |-> <<Diag("Error updating organization",
                           "Could not update organization " \o ValueString(respState.attrs.id)
                               \o ": " \o call.err.text)>>]
    ELSE [state |-> Tracked([plan EXCEPT
                      !.id = call.obj.id,
                      !.name = call.obj.name,
                      !.tier = call.obj.tier,
                      !.created_at = call.obj.created_at,
                      !.suspended_at = PtrStringOrNull(call.obj.suspended_at)]),
          diags |-> <<>>]

OrganizationResourceDelete(state, call) ==
    IF call.err # NilError /\ ~AssertAPIErrorNotFound(call.err)
    THEN <<Diag("Error deleting organization",
                "Could not delete organization " \o ValueString(state.id)
                    \o ": " \o call.err.text)>>
    ELSE <<>>

\* ---- inferadb_vault ---------------------------------------------------
VaultCreateBody(plan) ==
    Marshal([name |-> ValueString(plan.name), description |-> ValueString(plan.description)],
            {"description"})

\* The mapping of a Vault onto the model, shared by Create, Read and Update.
VaultMap(model, vault) ==
    [model EXCEPT
        !.id = vault.id,
        !.organization_id = vault.organization_id,
        !.name = vault.name,
        !.description = StringOrNull(vault.description),
        !.sync_status = StringOrNull(vault.sync_status),
        !.created_at = vault.created_at]

VaultResourceCreate(plan, call, respState) ==
    IF call.err # NilError
    THEN [state |-> respState,
          diags |-> <<Diag("Error Creating Vault", "Could not create vault: " \o call.err.text)>>]
    ELSE [state |-> Tracked(VaultMap(plan, call.obj)), diags |-> <<>>]

VaultResourceRead(state, call, respState) ==
    IF call.err # NilError
    THEN [state |-> respState,
          diags |-> <<Diag("Error Reading Vault",
                           "Could not read vault ID " \o ValueString(state.id)
                               \o ": " \o call.err.text)>>]
    ELSE [state |-> Tracked(VaultMap(state, call.obj)), diags |-> <<>>]

VaultUpdateBody(plan) ==
    Marshal([name |-> ValueString(plan.name), description |-> ValueString(plan.description)],
            {"name", "description"})

\* An Update that saves the plan before it looks at the error: the fault C6
\* rules out.
VaultResourceUpdateSavingPlan(plan, call, respState) ==
    IF call.err # NilError
    THEN [state |-> Tracked(plan),
          diags |-> <<Diag("Error Updating Vault",
                           "Could not update vault ID " \o ValueString(plan.id)
                               \o ": " \o call.err.text)>>]
    ELSE [state |-> Tracked(VaultMap(plan, call.obj)), diags |-> <<>>]

VaultResourceUpdate(plan, call, respState) ==
    IF call.err # NilError
    THEN [state |-> respState,
          diags |-> <<Diag("Error Updating Vault",
                           "Could not update vault ID " \o ValueString(plan.id)
                               \o ": " \o call.err.text)>>]
    ELSE [state |-> Tracked(VaultMap(plan, call.obj)), diags |-> <<>>]

VaultResourceDelete(state, call) ==
    IF call.err # NilError
    THEN <<Diag("Error Deleting Vault",
                "Could not delete vault ID " \o ValueString(state.id) \o ": " \o call.err.text)>>
    ELSE <<>>

\* ---- inferadb_client --------------------------------------------------
ClientCreateBody(plan) ==
    Marshal([name |-> ValueString(plan.name), vault_id |-> ValueString(plan.vault_id)], {})

ClientResourceCreate(plan, call, respState) ==
    IF call.err # NilError
    THEN [state |-> respState,
          diags |-> <<Diag("Client Error", "Unable to create client, got error: " \o call.err.text)>>]
    ELSE [state |-> Tracked([plan EXCEPT
                      !.id = call.obj.id,
                      !.is_active = call.obj.is_active,
                      !.created_at = call.obj.created_at]),
          diags |-> <<>>]

ClientResourceRead(state, call, respState) ==
    IF call.err # NilError
    THEN IF AssertAPIErrorNotFound(call.err)
         THEN [state |-> RemoveResource(respState), diags |-> <<>>]
         ELSE [state |-> respState,
               diags |-> <<Diag("Client Error", "Unable to read client, got error: " \o call.err.text)>>]
    ELSE [state |-> Tracked([state EXCEPT
                      !.vault_id = call.obj.vault_id,
                      !.name = call.obj.name,
                      !.is_active = call.obj.is_active,
                      !.created_at = call.obj.created_at]),
          diags |-> <<>>]

ClientUpdateBody(plan) ==
    Marshal([name |-> ValueString(plan.name), vault_id |-> ValueString(plan.vault_id)],
            {"name", "vault_id"})

ClientResourceUpdate(plan, call, respState) ==
    IF call.err # NilError
    THEN [state |-> respState,
          diags |-> <<Diag("Client Error", "Unable to update client, got error: " \o call.err.text)>>]
    ELSE [state |-> Tracked([plan EXCEPT
                      !.vault_id = call.obj.vault_id,
                      !.name = call.obj.name,
                      !.is_active = call.obj.is_active]),
          diags |-> <<>>]

ClientResourceDelete(state, call) ==
    IF call.err # NilError /\ ~AssertAPIErrorNotFound(call.err)
    THEN <<Diag("Client Error", "Unable to delete client, got error: " \o call.err.text)>>
    ELSE <<>>

\* ---- inferadb_team ----------------------------------------------------
TeamCreateBody(plan) ==
    Marshal([name |-> ValueString(plan.name), description |-> ValueString(plan.description)],
            {"description"})

TeamResourceCreate(plan, call, respState) ==
    IF call.err # NilError
    THEN [state |-> respState,
          diags |-> <<Diag("Error creating team", "Could not create team: " \o call.err.text)>>]
    ELSE [state |-> Tracked([plan EXCEPT
                      !.id = call.obj.id,
                      !.organization_id = call.obj.organization_id,
                      !.name = call.obj.name,
                      !.description = StringOrNull(call.obj.description),
                      !.created_at = call.obj.created_at]),
          diags |-> <<>>]

TeamResourceRead(state, call, respState) ==
    IF call.err # NilError
    THEN IF AssertAPIErrorNotFound(call.err)
         THEN [state |-> RemoveResource(respState), diags |-> <<>>]
         ELSE [state |-> respState,
               diags |-> <<Diag("Error reading team",
                                "Could not read team " \o ValueString(state.id)
                                    \o ": " \o call.err.text)>>]
    ELSE [state |-> Tracked([state EXCEPT
                      !.organization_id = call.obj.organization_id,
                      !.name = call.obj.name,
                      !.description = StringOrNull(call.obj.description),
                      !.created_at = call.obj.created_at]),
          diags |-> <<>>]

TeamUpdateBody(plan) ==
    Marshal([name |-> ValueString(plan.name), description |-> ValueString(plan.description)],
            {"name", "description"})

TeamResourceUpdate(plan, call, respState) ==
    IF call.err # NilError
    THEN [state |-> respState,
          diags |-> <<Diag("Error updating team",
                           "Could not update team " \o ValueString(respState.attrs.id)
                               \o ": " \o call.err.text)>>]
    ELSE [state |-> Tracked([plan EXCEPT
                      !.id = call.obj.id,
                      !.organization_id = call.obj.organization_id,
                      !.name = call.obj.name,
                      !.description = StringOrNull(call.obj.description),
                      !.created_at = call.obj.created_at]),
          diags |-> <<>>]

TeamResourceDelete(state, call) ==
    IF call.err # NilError /\ ~AssertAPIErrorNotFound(call.err)
    THEN <<Diag("Error deleting team",
                "Could not delete team " \o ValueString(state.id) \o ": " \o call.err.text)>>
    ELSE <<>>

\* ---- inferadb_client_certificate --------------------------------------
CertificateCreateBody(plan) == Marshal([name |-> ValueString(plan.name)], {})

ClientCertificateResourceCreate(plan, call, respState) ==
    IF call.err # NilError
    THEN [state |-> respState,
          diags |-> <<Diag("Error Creating Client Certificate",
                           "Could not create client certificate: " \o call.err.text)>>]
    ELSE [state |-> Tracked([plan EXCEPT
                      !.id = call.obj.id,
                      !.kid = call.obj.kid,
                      !.public_key_pem = call.obj.public_key_pem,
                      !.is_active = call.obj.is_active,
                      !.created_at = call.obj.created_at,
                      !.private_key_pem = StringOrNull(call.obj.private_key_pem),
                      !.revoked_at = PtrOrNull(call.obj.revoked_at)]),
          diags |-> <<>>]

\* A Read that also refreshes private_key_pem from the response, the way
\* Create maps it: the fault C5 rules out.
ClientCertificateResourceReadRefreshingKey(state, call, respState) ==
    IF call.err # NilError
    THEN IF TextSaysNotFound(call.err)
         THEN [state |-> RemoveResource(respState), diags |-> <<>>]
         ELSE [state |-> respState,
               diags |-> <<Diag("Error Reading Client Certificate",
                                "Could not read client certificate " \o ValueString(state.id)
                                    \o ": " \o call.err.text)>>]
    ELSE [state |-> Tracked([state EXCEPT
                      !.kid = call.obj.kid,
                      !.public_key_pem = call.obj.public_key_pem,
                      !.is_active = call.obj.is_active,
                      !.created_at = call.obj.created_at,
                      !.private_key_pem = StringOrNull(call.obj.private_key_pem),
                      !.revoked_at = PtrOrNull(call.obj.revoked_at)]),
          diags |-> <<>>]

\* ClientCertificateResource.Read with the not-found test of the other
\* adapters: a type assertion on the error GetCertificate returned.
ClientCertificateResourceReadAssertingType(state, call, respState) ==
    IF call.err # NilError
    THEN IF AssertAPIErrorNotFound(call.err)
         THEN [state |-> RemoveResource(respState), diags |-> <<>>]
         ELSE [state |-> respState,
               diags |-> <<Diag("Error Reading Client Certificate",
                                "Could not read client certificate " \o ValueString(state.id)
                                    \o ": " \o call.err.text)>>]
    ELSE [state |-> Tracked([state EXCEPT
                      !.kid = call.obj.kid,
                      !.public_key_pem = call.obj.public_key_pem,
                      !.is_active = call.obj.is_active,
                      !.created_at = call.obj.created_at,
                      !.revoked_at = PtrOrNull(call.obj.revoked_at)]),
          diags |-> <<>>]

ClientCertificateResourceRead(state, call, respState) ==
    IF call.err # NilError
    THEN IF TextSaysNotFound(call.err)
         THEN [state |-> RemoveResource(respState), diags |-> <<>>]
         ELSE [state |-> respState,
               diags |-> <<Diag("Error Reading Client Certificate",
                                "Could not read client certificate " \o ValueString(state.id)
                                    \o ": " \o call.err.text)>>]
    ELSE [state |-> Tracked([state EXCEPT
                      !.kid = call.obj.kid,
                      !.public_key_pem = call.obj.public_key_pem,
                      !.is_active = call.obj.is_active,
                      !.created_at = call.obj.created_at,
                      !.revoked_at = PtrOrNull(call.obj.revoked_at)]),
          diags |-> <<>>]

\* Update issues no request: it only adds the error.
\* ClientCertificateResource.Update written like the other Update handlers:
\* it reports nothing and saves the plan.
ClientCertificateResourceUpdateSavingPlan(plan, call, respState) ==
    [state |-> Tracked(plan), diags |-> <<>>]

ClientCertificateResourceUpdate(plan, call, respState) ==
    [state |-> respState,
     diags |-> <<Diag("Update Not Supported",
                      "Client certificates cannot be updated. All changes require replacement.")>>]

ClientCertificateResourceDelete(state, call) ==
    IF call.err # NilError /\ ~TextSaysNotFound(call.err)
    THEN <<Diag("Error Deleting Client Certificate",
                "Could not delete client certificate " \o ValueString(state.id)
                    \o ": " \o call.err.text)>>
    ELSE <<>>

\* ---- inferadb_team_member ---------------------------------------------
TeamMemberCreateBody(plan) ==
    Marshal([user_id |-> ValueString(plan.user_id), role |-> ValueString(plan.role)], {})

TeamMemberResourceCreate(plan, call, respState) ==
    IF call.err # NilError
    THEN [state |-> respState,
          diags |-> <<Diag("Error creating team member",
                           "Could not add team member: " \o call.err.text)>>]
    ELSE [state |-> Tracked([plan EXCEPT
                      !.id = call.obj.id,
                      !.created_at = call.obj.created_at]),
          diags |-> <<>>]

TeamMemberResourceRead(state, call, respState) ==
    IF call.err # NilError
    THEN IF AssertAPIErrorNotFound(call.err)
         THEN [state |-> RemoveResource(respState), diags |-> <<>>]
         ELSE [state |-> respState,
               diags |-> <<Diag("Error reading team member",
                                "Could not read team member " \o ValueString(state.id)
                                    \o ": " \o call.err.text)>>]
    ELSE [state |-> Tracked([state EXCEPT
                      !.user_id = call.obj.user_id,
                      !.role = call.obj.role,
                      !.created_at = call.obj.created_at]),
          diags |-> <<>>]

TeamMemberUpdateBody(plan) == Marshal([role |-> ValueString(plan.role)], {})

TeamMemberResourceUpdate(plan, call, respState) ==
    IF call.err # NilError
    THEN [state |-> respState,
          diags |-> <<Diag("Error updating team member",
                           "Could not update team member: " \o call.err.text)>>]
    ELSE [state |-> Tracked([plan EXCEPT !.role = call.obj.role]), diags |-> <<>>]

TeamMemberResourceDelete(state, call) ==
    IF call.err # NilError /\ ~AssertAPIErrorNotFound(call.err)
    THEN <<Diag("Error deleting team member",
                "Could not remove team member: " \o call.err.text)>>
    ELSE <<>>

\* ---- inferadb_vault_user_grant ----------------------------------------
VaultUserGrantCreateBody(plan) ==
    Marshal([user_id |-> ValueString(plan.user_id), role |-> ValueString(plan.role)], {})

VaultUserGrantResourceCreate(plan, call, respState) ==
    IF call.err # NilError
    THEN [state |-> respState,
          diags |-> <<Diag("Client Error", "Unable to create vault user grant: " \o call.err.text)>>]
    ELSE [state |-> Tracked([plan EXCEPT
                      !.id = call.obj.id,
                      !.granted_at = call.obj.granted_at,
                      !.granted_by_user_id = call.obj.granted_by_user_id]),
          diags |-> <<>>]

\* A Read that takes granted_by_user_id from the user_id of the response:
\* the fault C10 rules out.
VaultUserGrantResourceReadWrongGranter(state, call, respState) ==
    IF call.err # NilError
    THEN IF AssertAPIErrorNotFound(call.err)
         THEN [state |-> RemoveResource(respState), diags |-> <<>>]
         ELSE [state |-> respState,
               diags |-> <<Diag("Client Error", "Unable to read vault user grant: " \o call.err.text)>>]
    ELSE [state |-> Tracked([state EXCEPT
                      !.user_id = call.obj.user_id,
                      !.role = call.obj.role,
                      !.granted_at = call.obj.granted_at,
                      !.granted_by_user_id = call.obj.user_id]),
          diags |-> <<>>]

VaultUserGrantResourceRead(state, call, respState) ==
    IF call.err # NilError
    THEN IF AssertAPIErrorNotFound(call.err)
         THEN [state |-> RemoveResource(respState), diags |-> <<>>]
         ELSE [state |-> respState,
               diags |-> <<Diag("Client Error", "Unable to read vault user grant: " \o call.err.text)>>]
    ELSE [state |-> Tracked([state EXCEPT
                      !.user_id = call.obj.user_id,
                      !.role = call.obj.role,
                      !.granted_at = call.obj.granted_at,
                      !.granted_by_user_id = call.obj.granted_by_user_id]),
          diags |-> <<>>]

VaultUserGrantUpdateBody(plan) == Marshal([role |-> ValueString(plan.role)], {})

VaultUserGrantResourceUpdate(plan, call, respState) ==
    IF call.err # NilError
    THEN [state |-> respState,
          diags |-> <<Diag("Client Error", "Unable to update vault user grant: " \o call.err.text)>>]
    ELSE [state |-> Tracked([plan EXCEPT !.role = call.obj.role]), diags |-> <<>>]

VaultUserGrantResourceDelete(state, call) ==
    IF call.err # NilError /\ ~AssertAPIErrorNotFound(call.err)
    THEN <<Diag("Client Error", "Unable to delete vault user grant: " \o call.err.text)>>
    ELSE <<>>

\* ---- inferadb_vault_team_grant ----------------------------------------
VaultTeamGrantCreateBody(plan) ==
    Marshal([team_id |-> ValueString(plan.team_id), role |-> ValueString(plan.role)], {})

VaultTeamGrantResourceCreate(plan, call, respState) ==
    IF call.err # NilError
    THEN [state |-> respState,
          diags |-> <<Diag("Client Error",
                           "Unable to create vault team grant, got error: " \o call.err.text)>>]
    ELSE [state |-> Tracked([plan EXCEPT
                      !.id = call.obj.id,
                      !.granted_at = call.obj.granted_at,
                      !.granted_by_user_id = call.obj.granted_by_user_id]),
          diags |-> <<>>]

VaultTeamGrantResourceRead(state, call, respState) ==
    IF call.err # NilError
    THEN IF AssertAPIErrorNotFound(call.err)
         THEN [state |-> RemoveResource(respState), diags |-> <<>>]
         ELSE [state |-> respState,
               diags |-> <<Diag("Client Error",
                                "Unable to read vault team grant, got error: " \o call.err.text)>>]
    ELSE [state |-> Tracked([state EXCEPT
                      !.team_id = call.obj.team_id,
                      !.role = call.obj.role,
                      !.granted_at = call.obj.granted_at,
                      !.granted_by_user_id = call.obj.granted_by_user_id]),
          diags |-> <<>>]

VaultTeamGrantUpdateBody(plan) == Marshal([role |-> ValueString(plan.role)], {})

VaultTeamGrantResourceUpdate(plan, call, respState) ==
    IF call.err # NilError
    THEN [state |-> respState,
          diags |-> <<Diag("Client Error",
                           "Unable to update vault team grant, got error: " \o call.err.text)>>]
    ELSE [state |-> Tracked([plan EXCEPT !.role = call.obj.role]), diags |-> <<>>]

VaultTeamGrantResourceDelete(state, call) ==
    IF call.err # NilError /\ ~AssertAPIErrorNotFound(call.err)
    THEN <<Diag("Client Error", "Unable to delete vault team grant, got error: " \o call.err.text)>>
    ELSE <<>>

(***************************************************************************)
(* Data source adapters.  Read is given the model it read from the         *)
(* configuration, the outcome of its client call and the null response     *)
(* state; it yields the response state and the diagnostics.                *)
(***************************************************************************)
OrganizationDataSourceRead(data, call, respState) ==
    IF call.err # NilError
    THEN [state |-> respState,
          diags |-> <<Diag("Error reading organization",
                           "Could not read organization " \o ValueString(data.id)
                               \o ": " \o call.err.text)>>]
    ELSE [state |-> Tracked([data EXCEPT
                      !.id = call.obj.id,
                      !.name = call.obj.name,
                      !.tier = call.obj.tier,
                      !.created_at = call.obj.created_at,
                      !.suspended_at = PtrStringOrNull(call.obj.suspended_at)]),
          diags |-> <<>>]

VaultDataSourceRead(data, call, respState) ==
    IF call.err # NilError
    THEN [state |-> respState,
          diags |-> <<Diag("Error reading vault",
                           "Could not read vault " \o ValueString(data.id)
                               \o ": " \o call.err.text)>>]
    ELSE [state |-> Tracked([data EXCEPT
                      !.id = call.obj.id,
                      !.organization_id = call.obj.organization_id,
                      !.name = call.obj.name,
                      !.description = call.obj.description,
                      !.sync_status = StringOrNull(call.obj.sync_status),
                      !.created_at = call.obj.created_at]),
          diags |-> <<>>]

ClientDataSourceRead(data, call, respState) ==
    IF call.err # NilError
    THEN [state |-> respState,
          diags |-> <<Diag("Error reading client",
                           "Could not read client " \o ValueString(data.id)
                               \o ": " \o call.err.text)>>]
    ELSE [state |-> Tracked([data EXCEPT
                      !.id = call.obj.id,
                      !.organization_id = call.obj.organization_id,
                      !.name = call.obj.name,
                      !.vault_id = call.obj.vault_id,
                      !.is_active = call.obj.is_active,
                      !.created_at = call.obj.created_at]),
          diags |-> <<>>]

\* TeamDataSource.Read with the not-found branch of the resource adapters:
\* a 404 yields an absent result and no diagnostic.
TeamDataSourceReadAbsentOnNotFound(data, call, respState) ==
    IF call.err # NilError /\ Contains(call.err.text, "404")
    THEN [state |-> respState, diags |-> <<>>]
    ELSE IF call.err # NilError
    THEN [state |-> respState,
          diags |-> <<Diag("Error reading team",
                           "Could not read team " \o ValueString(data.id)
                               \o ": " \o call.err.text)>>]
    ELSE [state |-> Tracked([data EXCEPT
                      !.id = call.obj.id,
                      !.organization_id = call.obj.organization_id,
                      !.name = call.obj.name,
                      !.description = call.obj.description,
                      !.created_at = call.obj.created_at]),
          diags |-> <<>>]

TeamDataSourceRead(data, call, respState) ==
    IF call.err # NilError
    THEN [state |-> respState,
          diags |-> <<Diag("Error reading team",
                           "Could not read team " \o ValueString(data.id)
                               \o ": " \o call.err.text)>>]
    ELSE [state |-> Tracked([data EXCEPT
                      !.id = call.obj.id,
                      !.organization_id = call.obj.organization_id,
                      !.name = call.obj.name,
                      !.description = call.obj.description,
                      !.created_at = call.obj.created_at]),
          diags |-> <<>>]

(***************************************************************************)
(* Provider.                                                               *)
(***************************************************************************)
\* types.String.IsNull()
IsNull(v) == v = Null

\* The nil *client.Client: the provider data when Configure hands none.
NilClient == [nil |-> TRUE]

\* InferaDBProvider.Configure, given the provider block config and the
\* process environment getenv: the client handed to resources and data
\* sources (Nil when none is) and the diagnostics.
ProviderConfigure(config, getenv) ==
    LET envEndpoint == getenv["INFERADB_ENDPOINT"]
        envToken == getenv["INFERADB_SESSION_TOKEN"]
        endpoint == IF ~IsNull(config.endpoint) THEN ValueString(config.endpoint)
                    ELSE IF envEndpoint # "" THEN envEndpoint
                    ELSE BaseURL
        sessionToken == IF ~IsNull(config.session_token) THEN ValueString(config.session_token)
                        ELSE IF envToken # "" THEN envToken
                        ELSE ""
    IN  IF sessionToken = ""
        THEN [client |-> NilClient,
              diags |-> <<Diag("Missing Session Token",
                               "The provider requires a session token for authentication. "
                                   \o "Set the session_token in the provider configuration or "
                                   \o "set the INFERADB_SESSION_TOKEN environment variable.")>>]
        ELSE [client |-> New([Endpoint |-> endpoint, SessionToken |-> sessionToken]),
              diags |-> <<>>]

\* The provider before and after Configure ran on a configuration and an
\* environment.
Unconfigured(config, getenv) ==
    [config |-> config, env |-> getenv, done |-> FALSE, client |-> NilClient, diags |-> <<>>]
Configured(config, getenv) ==
    [config |-> config, env |-> getenv, done |-> TRUE,
     client |-> ProviderConfigure(config, getenv).client,
     diags |-> ProviderConfigure(config, getenv).diags]

\* A provider block that sets the session token, in an environment that
\* sets neither variable.
TokenInConfig == [endpoint |-> Null, session_token |-> "t1"]
NoEnvironment == [INFERADB_ENDPOINT |-> "", INFERADB_SESSION_TOKEN |-> ""]

(***************************************************************************)
(* ImportState handlers.  respState is the null state the framework        *)
(* prepared; SetAttribute sets one attribute of it.                        *)
(***************************************************************************)
\* resp.State.SetAttribute(ctx, path.Root(a), v)
SetAttribute(respState, a, v) ==
    [exists |-> TRUE, attrs |-> [respState.attrs EXCEPT ![a] = v]]

OrganizationResourceImportState(id, respState) ==
    IF TrimSpace(id) = ""
    THEN [state |-> respState,
          diags |-> <<Diag("Invalid Import ID",
                           "Organization ID cannot be empty. Use format: <org_id>")>>]
    ELSE [state |-> SetAttribute(respState, "id", TrimSpace(id)), diags |-> <<>>]

VaultResourceImportState(id, respState) ==
    LET parts == Split(id)
    IN  IF Len(parts) # 2 \/ parts[1] = "" \/ parts[2] = ""
        THEN [state |-> respState,
              diags |-> <<Diag("Invalid Import ID",
                               "Expected import ID format: organization_id/vault_id, got: " \o id)>>]
        ELSE [state |-> SetAttribute(SetAttribute(respState, "organization_id", parts[1]),
                                     "id", parts[2]),
              diags |-> <<>>]

ClientResourceImportState(id, respState) ==
    LET parts == Split(id)
    IN  IF Len(parts) # 2
        THEN [state |-> respState,
              diags |-> <<Diag("Invalid Import ID",
                               "Expected import ID in format: <org_id>/<client_id>, got: " \o id)>>]
        ELSE [state |-> SetAttribute(SetAttribute(respState, "organization_id", parts[1]),
                                     "id", parts[2]),
              diags |-> <<>>]

\* An ImportState that takes client_id and id from the wrong segments: the
\* fault C8 rules out.
ClientCertificateResourceImportStateSwapped(id, respState) ==
    LET parts == Split(id)
    IN  IF Len(parts) # 3
        THEN [state |-> respState,
              diags |-> <<Diag("Invalid Import ID",
                               "Expected import ID format: <org_id>/<client_id>/<cert_id>, got: "
                                   \o id)>>]
        ELSE [state |-> SetAttribute(SetAttribute(SetAttribute(respState,
                            "organization_id", parts[1]), "client_id", parts[3]), "id", parts[2]),
              diags |-> <<>>]

ClientCertificateResourceImportState(id, respState) ==
    LET parts == Split(id)
    IN  IF Len(parts) # 3
        THEN [state |-> respState,
              diags |-> <<Diag("Invalid Import ID",
                               "Expected import ID format: <org_id>/<client_id>/<cert_id>, got: "
                                   \o id)>>]
        ELSE [state |-> SetAttribute(SetAttribute(SetAttribute(respState,
                            "organization_id", parts[1]), "client_id", parts[2]), "id", parts[3]),
              diags |-> <<>>]

TeamResourceImportState(id, respState) ==
    LET parts == Split(id)
    IN  IF Len(parts) # 2 \/ parts[1] = "" \/ parts[2] = ""
        THEN [state |-> respState,
              diags |-> <<Diag("Invalid Import ID",
                               "Team import ID must be in the format: <org_id>/<team_id>")>>]
        ELSE [state |-> SetAttribute(SetAttribute(respState,
                            "organization_id", TrimSpace(parts[1])), "id", TrimSpace(parts[2])),
              diags |-> <<>>]

TeamMemberResourceImportState(id, respState) ==
    LET parts == Split(id)
    IN  IF Len(parts) # 3
        THEN [state |-> respState,
              diags |-> <<Diag("Invalid Import ID",
                               "Expected import ID in format: <org_id>/<team_id>/<member_id>, got: "
                                   \o id)>>]
        ELSE [state |-> SetAttribute(SetAttribute(SetAttribute(respState,
                            "organization_id", parts[1]), "team_id", parts[2]), "id", parts[3]),
              diags |-> <<>>]

VaultUserGrantResourceImportState(id, respState) ==
    LET parts == Split(id)
    IN  IF Len(parts) # 3
        THEN [state |-> respState,
              diags |-> <<Diag("Invalid Import ID",
                               "Expected import ID in format: <org_id>/<vault_id>/<grant_id>, got: "
                                   \o id)>>]
        ELSE [state |-> SetAttribute(SetAttribute(SetAttribute(respState,
                            "organization_id", parts[1]), "vault_id", parts[2]), "id", parts[3]),
              diags |-> <<>>]

VaultTeamGrantResourceImportState(id, respState) ==
    LET parts == Split(id)
    IN  IF Len(parts) # 3
        THEN [state |-> respState,
              diags |-> <<Diag("Invalid Import ID",
                               "Expected import ID in format: <org_id>/<vault_id>/<grant_id>, got: "
                                   \o id)>>]
        ELSE [state |-> SetAttribute(SetAttribute(SetAttribute(respState,
                            "organization_id", parts[1]), "vault_id", parts[2]), "id", parts[3]),
              diags |-> <<>>]

(***************************************************************************)
(* The provider's resource table: the handler of each type.                *)
(***************************************************************************)
CreateBody(t, plan) ==
    CASE t = "organization" -> OrganizationCreateBody(plan)
      [] t = "vault" -> VaultCreateBody(plan)
      [] t = "client" -> ClientCreateBody(plan)
      [] t = "client_certificate" -> CertificateCreateBody(plan)
      [] t = "team" -> TeamCreateBody(plan)
      [] t = "team_member" -> TeamMemberCreateBody(plan)
      [] t = "vault_user_grant" -> VaultUserGrantCreateBody(plan)
      [] t = "vault_team_grant" -> VaultTeamGrantCreateBody(plan)

UpdateBody(t, plan) ==
    CASE t = "organization" -> OrganizationUpdateBody(plan)
      [] t = "vault" -> VaultUpdateBody(plan)
      [] t = "client" -> ClientUpdateBody(plan)
      [] t = "team" -> TeamUpdateBody(plan)
      [] t = "team_member" -> TeamMemberUpdateBody(plan)
      [] t = "vault_user_grant" -> VaultUserGrantUpdateBody(plan)
      [] t = "vault_team_grant" -> VaultTeamGrantUpdateBody(plan)

ResourceCreate(t, plan, call, respState) ==
    CASE t = "organization" -> OrganizationResourceCreate(plan, call, respState)
      [] t = "vault" -> VaultResourceCreate(plan, call, respState)
      [] t = "client" -> ClientResourceCreate(plan, call, respState)
      [] t = "client_certificate" -> ClientCertificateResourceCreate(plan, call, respState)
      [] t = "team" -> TeamResourceCreate(plan, call, respState)
      [] t = "team_member" -> TeamMemberResourceCreate(plan, call, respState)
      [] t = "vault_user_grant" -> VaultUserGrantResourceCreate(plan, call, respState)
      [] t = "vault_team_grant" -> VaultTeamGrantResourceCreate(plan, call, respState)

ResourceRead(t, state, call, respState) ==
    CASE t = "organization" -> OrganizationResourceRead(state, call, respState)
      [] t = "vault" -> VaultResourceRead(state, call, respState)
      [] t = "client" -> ClientResourceRead(state, call, respState)
      [] t = "client_certificate" -> ClientCertificateResourceRead(state, call, respState)
      [] t = "team" -> TeamResourceRead(state, call, respState)
      [] t = "team_member" -> TeamMemberResourceRead(state, call, respState)
      [] t = "vault_user_grant" -> VaultUserGrantResourceRead(state, call, respState)
      [] t = "vault_team_grant" -> VaultTeamGrantResourceRead(state, call, respState)

\* The data sources of the provider, and the entity type each one reads.
DataSourceTypes == {"data.organization", "data.vault", "data.client", "data.team"}
EntityType(t) ==
    CASE t = "data.organization" -> "organization"
      [] t = "data.vault" -> "vault"
      [] t = "data.client" -> "client"
      [] t = "data.team" -> "team"
      [] OTHER -> t

DataSourceRead(t, data, call, respState) ==
    CASE t = "data.organization" -> OrganizationDataSourceRead(data, call, respState)
      [] t = "data.vault" -> VaultDataSourceRead(data, call, respState)
      [] t = "data.client" -> ClientDataSourceRead(data, call, respState)
      [] t = "data.team" -> TeamDataSourceRead(data, call, respState)

ResourceUpdate(t, plan, call, respState) ==
    CASE t = "organization" -> OrganizationResourceUpdate(plan, call, respState)
      [] t = "vault" -> VaultResourceUpdate(plan, call, respState)
      [] t = "client" -> ClientResourceUpdate(plan, call, respState)
      [] t = "client_certificate" -> ClientCertificateResourceUpdate(plan, call, respState)
      [] t = "team" -> TeamResourceUpdate(plan, call, respState)
      [] t = "team_member" -> TeamMemberResourceUpdate(plan, call, respState)
      [] t = "vault_user_grant" -> VaultUserGrantResourceUpdate(plan, call, respState)
      [] t = "vault_team_grant" -> VaultTeamGrantResourceUpdate(plan, call, respState)

ResourceDelete(t, state, call) ==
    CASE t = "organization" -> OrganizationResourceDelete(state, call)
      [] t = "vault" -> VaultResourceDelete(state, call)
      [] t = "client" -> ClientResourceDelete(state, call)
      [] t = "client_certificate" -> ClientCertificateResourceDelete(state, call)
      [] t = "team" -> TeamResourceDelete(state, call)
      [] t = "team_member" -> TeamMemberResourceDelete(state, call)
      [] t = "vault_user_grant" -> VaultUserGrantResourceDelete(state, call)
      [] t = "vault_team_grant" -> VaultTeamGrantResourceDelete(state, call)

ResourceImportState(t, id, respState) ==
    CASE t = "organization" -> OrganizationResourceImportState(id, respState)
      [] t = "vault" -> VaultResourceImportState(id, respState)
      [] t = "client" -> ClientResourceImportState(id, respState)
      [] t = "client_certificate" -> ClientCertificateResourceImportState(id, respState)
      [] t = "team" -> TeamResourceImportState(id, respState)
      [] t = "team_member" -> TeamMemberResourceImportState(id, respState)
      [] t = "vault_user_grant" -> VaultUserGrantResourceImportState(id, respState)
      [] t = "vault_team_grant" -> VaultTeamGrantResourceImportState(id, respState)

(***************************************************************************)
(* The remote Control API, as the transport client sees it: a store of     *)
(* entities addressed by URL path, answering one request at a time.        *)
(***************************************************************************)
\* The identifier the service gives its k-th entity.
ServerID(k) == ToString(16 + k)

\* The service holds no entity for the address.
NoEntity == [present |-> FALSE, scope |-> <<>>, obj |-> <<>>]

\* The tier as the API stores it (the inverse of normalizeTier).
ServerTier(tier) ==
    CASE tier = "" -> "TIER_DEV_V1"
      [] tier = "dev" -> "TIER_DEV_V1"
      [] tier = "pro" -> "TIER_PRO_V1"
      [] tier = "max" -> "TIER_MAX_V1"
      [] OTHER -> tier

\* A key of a JSON request body, "" when omitempty left it out.
Field(body, k) == IF k \in DOMAIN body THEN body[k] ELSE ""

\* The entity the service stores for a POST: the fields of the wire struct,
\* the server-owned ones chosen by the service.
NewEntity(t, id, scope, body) ==
    CASE t = "organization" ->
            [id |-> id, name |-> Field(body, "name"), tier |-> ServerTier(Field(body, "tier")),
             created_at |-> "2025-01-01T00:00:00Z", suspended_at |-> Nil]
      [] t = "vault" ->
            [id |-> id, organization_id |-> scope.organization_id, name |-> Field(body, "name"),
             description |-> Field(body, "description"), sync_status |-> "pending",
             created_at |-> "2025-01-01T00:00:00Z"]
      [] t = "client" ->
            [id |-> id, organization_id |-> scope.organization_id,
             vault_id |-> Field(body, "vault_id"), name |-> Field(body, "name"),
             is_active |-> "true", created_at |-> "2025-01-01T00:00:00Z"]
      [] t = "client_certificate" ->
            [id |-> id, client_id |-> scope.client_id, name |-> Field(body, "name"),
             kid |-> "kid-" \o id, public_key_pem |-> "PUBLIC KEY", private_key_pem |-> "PRIVATE KEY",
             is_active |-> "true", created_at |-> "2025-01-01T00:00:00Z", revoked_at |-> Nil]
      [] t = "team" ->
            [id |-> id, organization_id |-> scope.organization_id, name |-> Field(body, "name"),
             description |-> Field(body, "description"), created_at |-> "2025-01-01T00:00:00Z"]
      [] t = "team_member" ->
            [id |-> id, team_id |-> scope.team_id, user_id |-> Field(body, "user_id"),
             role |-> Field(body, "role"), created_at |-> "2025-01-01T00:00:00Z"]
      [] t = "vault_user_grant" ->
            [id |-> id, vault_id |-> scope.vault_id, user_id |-> Field(body, "user_id"),
             role |-> Field(body, "role"), granted_at |-> "2025-01-01T00:00:00Z",
             granted_by_user_id |-> "9"]
      [] t = "vault_team_grant" ->
            [id |-> id, vault_id |-> scope.vault_id, team_id |-> Field(body, "team_id"),
             role |-> Field(body, "role"), granted_at |-> "2025-01-01T00:00:00Z",
             granted_by_user_id |-> "9"]

\* The entity after a PATCH: the keys present in the body replace the fields.
ApplyPatch(obj, body) ==
    [f \in DOMAIN obj |->
        IF f \in DOMAIN body
        THEN IF f = "tier" THEN ServerTier(body[f]) ELSE body[f]
        ELSE obj[f]]

\* A change the service makes to a server-owned field on its own.
ServerEdit(t, obj) ==
    CASE t = "organization" -> [obj EXCEPT !.suspended_at = "2025-02-02T00:00:00Z"]
      [] t = "vault" -> [obj EXCEPT !.sync_status = "synced"]
      [] t = "client" -> [obj EXCEPT !.is_active = "false"]
      [] t = "client_certificate" ->
            [obj EXCEPT !.is_active = "false", !.revoked_at = "2025-02-02T00:00:00Z"]
      [] t = "team" -> [obj EXCEPT !.description = "edited"]
      [] OTHER -> [obj EXCEPT !.role = "admin"]

\* The entity as a reply carries it: the private key of a certificate is
\* left out unless the service echoes it (echo), as it does on creation.
ReplyView(t, obj, echo) ==
    IF t = "client_certificate" /\ ~echo
    THEN [f \in DOMAIN obj \ {"private_key_pem"} |-> obj[f]]
    ELSE obj

\* The path under which the store holds an entity.
EntityPath(t, e) ==
    ItemPath(t, [a \in DOMAIN e.scope \cup {"id"} |-> IF a = "id" THEN e.obj.id ELSE e.scope[a]])

\* What can go wrong with one request.  "none": the service answers as its
\* contract says; "refused": the request never arrives; "lost": it is
\* served and the reply never arrives; "error": the service fails with a
\* 500; "garbled": it is served and the reply body is not JSON; "noparent"
\* (POST only): the parent collection does not exist.
Faults(method) ==
    {"none", "refused", "lost", "error", "garbled"}
        \cup (IF method = "POST" THEN {"noparent"} ELSE {})

\* The bodies a failing reply may carry.
ErrorBodies ==
    {ErrorBody("failed", "", "key not found in store"),
     TextBody("Bad Gateway")}

\* Encodings of identifier fields in a reply.
IDEncodings == {"string", "number"}

\* The body of the 404 the service sends for a path that holds no entity.
NotFoundBody == ErrorBody("no such resource", "E404", "")

\* The environment's choices for one request: the fault, the body of a
\* failing reply, and for a reply that carries an entity the encoding of its
\* identifiers and whether a certificate's private key is echoed.
Environments(t, method) ==
    {[fault |-> "none", errbody |-> NotFoundBody, idenc |-> i, echo |-> e] :
        i \in (IF method = "DELETE" THEN {"string"} ELSE IDEncodings),
        e \in (IF t = "client_certificate" /\ method = "GET" THEN BOOLEAN ELSE {FALSE})}
    \cup {[fault |-> f, errbody |-> NotFoundBody, idenc |-> "string", echo |-> FALSE] :
            f \in {"refused", "lost", "garbled"}}
    \cup {[fault |-> f, errbody |-> b, idenc |-> "string", echo |-> FALSE] :
            f \in Faults(method) \ {"none", "refused", "lost", "garbled"}, b \in ErrorBodies}

\* The environment's choices for a GET whose successful reply need not have
\* the shape the client decodes: "reshaped" is a 200 whose JSON object holds
\* the entity under another key, "emptied" a 200 without a body.
RefreshEnvironments(t) ==
    Environments(t, "GET")
        \cup {[fault |-> f, errbody |-> NotFoundBody, idenc |-> "string", echo |-> FALSE] :
                f \in {"reshaped", "emptied"}}

\* The environment's choices for a POST whose successful reply need not
\* carry the created entity: besides "reshaped" and "emptied", "nullid" is
\* a 2xx whose id member is the JSON value null.
CreateEnvironments(t) ==
    Environments(t, "POST")
        \cup {[fault |-> f, errbody |-> NotFoundBody, idenc |-> "string", echo |-> FALSE] :
                f \in {"reshaped", "emptied", "nullid"}}

\* Whether the endpoint of client c is a plain-HTTP URL.
PlainHTTP(c) == Len(c.baseURL) > 4 /\ SubSeq(c.baseURL, 1, 5) = "http:"

\* The environment's choices for a request of client c: an endpoint given
\* as http:// can stand behind a front that redirects to https://.
EnvironmentsAt(c, t, method) ==
    Environments(t, method)
        \cup (IF PlainHTTP(c)
              THEN {[fault |-> "redirected", errbody |-> NotFoundBody,
                     idenc |-> "string", echo |-> FALSE]}
              ELSE {})

\* Whether the service processes the request under a fault.
Served(env) ==
    env.fault \in {"none", "lost", "garbled", "reshaped", "emptied", "redirected", "nullid"}

\* The reply that reaches the client for a served request whose contract
\* reply is reply, or for a request that was not served.
Delivered(env, reply) ==
    CASE env.fault = "none" -> reply
      [] env.fault = "refused" -> NoReply("dial tcp: connect: connection refused")
      [] env.fault = "lost" -> NoReply("context deadline exceeded")
      [] env.fault = "error" -> Reply(StatusInternalServerError, env.errbody)
      [] env.fault = "noparent" -> Reply(StatusNotFound, env.errbody)
      [] env.fault = "garbled" ->
            IF reply.status >= 400 THEN reply ELSE Reply(reply.status, TextBody("<html>"))
      [] env.fault = "reshaped" ->
            IF reply.status >= 400 \/ reply.body.form # "entity" THEN reply
            ELSE Reply(reply.status, EntityBody("data", reply.body.idenc, reply.body.obj))
      [] env.fault = "emptied" ->
            IF reply.status >= 400 THEN reply ELSE Reply(reply.status, EmptyBody)
      [] env.fault = "redirected" -> [reply EXCEPT !.via = <<UpgradeRedirect>>]
      [] env.fault = "nullid" ->
            IF reply.status >= 400 \/ reply.body.form # "entity" THEN reply
            ELSE Reply(reply.status, EntityBody(reply.body.wrapper, "null", reply.body.obj))

\* One request against the service.  held is the entity the service holds
\* for the address ([present, scope, obj]), n the number of entities it
\* has created.  Yields both after the request, and the reply.
ServerHandle(held, n, t, method, path, scope, body, env) ==
    LET hit == held.present /\ EntityPath(t, held) = path
        e == IF method = "POST"
             THEN [present |-> TRUE, scope |-> scope,
                   obj |-> NewEntity(t, ServerID(n + 1), scope, body)]
             ELSE IF method = "PATCH" THEN [held EXCEPT !.obj = ApplyPatch(@, body)]
             ELSE held
    IN  IF ~Served(env)
        THEN [store |-> held, n |-> n, resp |-> Delivered(env, Reply(StatusOK, EmptyBody))]
        ELSE IF method # "POST" /\ ~hit
        THEN [store |-> held, n |-> n, resp |-> Delivered(env, Reply(StatusNotFound, env.errbody))]
        ELSE IF method = "DELETE"
        THEN [store |-> NoEntity, n |-> n, resp |-> Delivered(env, Reply(StatusOK, EmptyBody))]
        ELSE [store |-> e,
              n |-> IF method = "POST" THEN n + 1 ELSE n,
              resp |-> Delivered(env,
                          Reply(StatusOK,
                                EntityBody(ExpectedWrapper(t, method), env.idenc,
                                           ReplyView(t, e.obj, env.echo \/ method = "POST"))))]

(***************************************************************************)
(* Terraform driving one resource address of one type.                     *)
(***************************************************************************)
\* The configurations of a resource of type t: two per type, differing in
\* every attribute an Update may change.
Configs(t) ==
    CASE t = "organization" -> {[name |-> "n1", tier |-> "dev"], [name |-> "n2", tier |-> "pro"]}
      [] t = "vault" ->
            {[organization_id |-> "1", name |-> "n1", description |-> Null],
             [organization_id |-> "1", name |-> "n2", description |-> "d1"]}
      [] t = "client" ->
            {[organization_id |-> "1", vault_id |-> "2", name |-> "n1"],
             [organization_id |-> "1", vault_id |-> "3", name |-> "n2"]}
      [] t = "client_certificate" ->
            {[organization_id |-> "1", client_id |-> "5", name |-> "n1"],
             [organization_id |-> "1", client_id |-> "5", name |-> "n2"]}
      [] t = "team" ->
            {[organization_id |-> "1", name |-> "n1", description |-> Null],
             [organization_id |-> "1", name |-> "n2", description |-> "d1"]}
      [] t = "team_member" ->
            {[organization_id |-> "1", team_id |-> "6", user_id |-> "7", role |-> "reader"],
             [organization_id |-> "1", team_id |-> "6", user_id |-> "7", role |-> "writer"]}
      [] t = "vault_user_grant" ->
            {[organization_id |-> "1", vault_id |-> "2", user_id |-> "7", role |-> "reader"],
             [organization_id |-> "1", vault_id |-> "2", user_id |-> "7", role |-> "writer"]}
      [] t = "vault_team_grant" ->
            {[organization_id |-> "1", vault_id |-> "2", team_id |-> "6", role |-> "reader"],
             [organization_id |-> "1", vault_id |-> "2", team_id |-> "6", role |-> "writer"]}

\* Attributes planned with RequiresReplace: an Update plan keeps their prior value.
RequiresReplace(t) ==
    CASE t = "organization" -> {}
      [] t \in {"vault", "client", "team"} -> {"organization_id"}
      [] t = "client_certificate" -> {"organization_id", "client_id", "name"}
      [] t = "team_member" -> {"organization_id", "team_id", "user_id"}
      [] t = "vault_user_grant" -> {"organization_id", "vault_id", "user_id"}
      [] t = "vault_team_grant" -> {"organization_id", "vault_id", "team_id"}

\* The plan of a Create: the configuration, computed attributes unknown.
PlanForCreate(t, cfg) ==
    [a \in Attributes(t) |-> IF a \in ConfigAttributes(t) THEN cfg[a] ELSE Unknown]

\* The plan of an Update over the prior state.
PlanForUpdate(t, cfg, prior) ==
    [a \in Attributes(t) |->
        IF a \in RequiresReplace(t) \cup UseStateForUnknown(t) THEN prior[a]
        ELSE IF a \in ConfigAttributes(t) THEN cfg[a]
        ELSE Unknown]

\* The ValueString() of every attribute of a model.
Strings(model) == [a \in DOMAIN model |-> ValueString(model[a])]

\* The model whose identifiers an Update puts in the URL: the prior state
\* for organizations and teams, the plan for the other types.
UpdateTarget(t, plan, prior) == IF t \in {"organization", "team"} THEN prior ELSE plan

\* The ancestor scope of a model, by attribute.
ScopeOf(t, model) ==
    [a \in {ScopeAttributes(t)[i] : i \in 1..Len(ScopeAttributes(t))} |-> ValueString(model[a])]

\* The import ID that addresses a stored entity: scope segments, then its id.
RECURSIVE JoinScope(_, _, _)
JoinScope(t, scope, i) ==
    IF i > Len(ScopeAttributes(t)) THEN ""
    ELSE scope[ScopeAttributes(t)[i]] \o "/" \o JoinScope(t, scope, i + 1)
CompositeID(t, e) == JoinScope(t, e.scope, 1) \o e.obj.id

\* Import IDs: every string over the alphabet up to a length.
ImportAlphabet == {"a", "b", " ", "/"}
RECURSIVE StringsUpTo(_)
StringsUpTo(n) ==
    IF n = 0 THEN {""}
    ELSE {""} \cup {s \o c : s \in StringsUpTo(n - 1), c \in ImportAlphabet}
ImportIDs == StringsUpTo(MaxImportLen)

VARIABLES
    rtype,    \* the resource type of the address
    state,    \* the tracked state of the address: [exists, attrs]
    store,    \* the entity the service holds for the address: [present, scope, obj]
    created,  \* number of entities the service has created
    diags,    \* diagnostics of the last handler invocation
    last,     \* the last step: operation, request and reply
    hist,     \* how the tracked state came to be, and the state Create+Read gave
    provider, \* the provider: its configuration, environment and client
    calls     \* the handler invocations in progress on the shared client

vars == <<rtype, state, store, created, diags, last, hist, provider, calls>>

\* No invocation in progress.
NoCalls == <<>>

\* The record of a step that sent no request.
NoRequest(op, arg) ==
    [op |-> op, arg |-> arg, requests |-> 0, cookies |-> <<>>, resp |-> NoReply(""),
     failed |-> FALSE]
\* The record of a step whose handler made the client call: the requests
\* the call sent and their cookies, the reply, whether the call failed.
OneRequest(op, resp, call) ==
    [op |-> op, arg |-> "", requests |-> Len(call.sent),
     cookies |-> [i \in 1..Len(call.sent) |-> call.sent[i].cookies],
     resp |-> resp, failed |-> call.err # NilError]

NoSnapshot == [origin |-> "none", valid |-> FALSE, snap |-> <<>>]

Init ==
    /\ provider = Configured(TokenInConfig, NoEnvironment)
    /\ rtype \in ResourceTypes
    /\ state = NoState(rtype)
    /\ store = NoEntity
    /\ created = 0
    /\ diags = <<>>
    /\ last = NoRequest("Init", "")
    /\ hist = NoSnapshot
    /\ calls = NoCalls

\* The provider was configured and handed a client to the adapters.
Ready == provider.done /\ provider.client # NilClient
\* The address is a managed resource of a configured provider.
Managed == Ready /\ rtype \in ResourceTypes

\* The history after a step that ends the snapshot.
Forget(origin) == [NoSnapshot EXCEPT !.origin = origin]

\* The Create handler and its one POST, for the configuration cfg and
\* answered under the environment env.
CreateUnder(cfg, env) ==
        /\ Served(env) => created < MaxCreates
        /\ LET plan == PlanForCreate(rtype, cfg)
               path == CollectionPath(rtype, Strings(plan))
               body == CreateBody(rtype, plan)
               srv == ServerHandle(store, created, rtype, "POST", path,
                                   ScopeOf(rtype, plan), body, env)
               call == ClientCall(provider.client, rtype, "POST", path, srv.resp)
               out == ResourceCreate(rtype, plan, call, NoState(rtype))
           IN  /\ state' = out.state
               /\ store' = srv.store
               /\ created' = srv.n
               /\ diags' = out.diags
               /\ last' = OneRequest("Create", srv.resp, call)
               /\ hist' = Forget(IF out.state.exists THEN "create" ELSE "none")
        /\ UNCHANGED <<calls, provider, rtype>>

\* terraform apply of a new address.
Create ==
    /\ Managed
    /\ ~state.exists
    /\ \E cfg \in Configs(rtype), env \in EnvironmentsAt(provider.client, rtype, "POST") :
            CreateUnder(cfg, env)

\* The Read handler and its one GET, answered under the environment env.
ReadUnder(env) ==
    LET path == ItemPath(rtype, Strings(state.attrs))
        srv == ServerHandle(store, created, rtype, "GET", path, <<>>, <<>>, env)
        call == ClientCall(provider.client, rtype, "GET", path, srv.resp)
        out == ResourceRead(rtype, state.attrs, call, state)
    IN  /\ state' = out.state
        /\ diags' = out.diags
        /\ last' = OneRequest("Read", srv.resp, call)
        /\ hist' = IF ~out.state.exists THEN [hist EXCEPT !.origin = "none"]
                   ELSE IF last.op = "Create" /\ ~last.failed /\ ~(call.err # NilError)
                   THEN [origin |-> hist.origin, valid |-> TRUE, snap |-> out.state.attrs]
                   ELSE hist
        /\ UNCHANGED <<calls, provider, rtype, store, created>>

\* terraform refresh: the Read handler and its one GET.
Read ==
    /\ Managed
    /\ state.exists
    /\ \E env \in EnvironmentsAt(provider.client, rtype, "GET") : ReadUnder(env)

\* The Update handler and its one PATCH (none for a certificate), for the
\* configuration cfg and answered under the environment env.  With traced,
\* the step also records the plan, the prior state and the PATCH body.
UpdateUnder(cfg, env, traced) ==
        LET plan == PlanForUpdate(rtype, cfg, state.attrs)
            path == ItemPath(rtype, Strings(UpdateTarget(rtype, plan, state.attrs)))
            body == UpdateBody(rtype, plan)
            srv == ServerHandle(store, created, rtype, "PATCH", path, <<>>, body, env)
            call == ClientCall(provider.client, rtype, "PATCH", path, srv.resp)
        IN  IF rtype = "client_certificate"
            THEN /\ state' = ResourceUpdate(rtype, plan, [err |-> NilError], state).state
                 /\ diags' = ResourceUpdate(rtype, plan, [err |-> NilError], state).diags
                 /\ last' = NoRequest("Update", "")
                 /\ hist' = Forget(hist.origin)
                 /\ UNCHANGED store
            ELSE /\ state' = ResourceUpdate(rtype, plan, call, state).state
                 /\ diags' = ResourceUpdate(rtype, plan, call, state).diags
                 /\ store' = srv.store
                 /\ last' = IF traced
                            THEN OneRequest("Update", srv.resp, call)
                                     @@ [body |-> body, plan |-> plan, prior |-> state.attrs]
                            ELSE OneRequest("Update", srv.resp, call)
                 /\ hist' = Forget(hist.origin)

\* terraform apply of a changed configuration.
Update ==
    /\ Managed
    /\ state.exists
    /\ \E cfg \in Configs(rtype), env \in EnvironmentsAt(provider.client, rtype, "PATCH") :
            UpdateUnder(cfg, env, FALSE)
    /\ UNCHANGED <<calls, provider, rtype, created>>

\* terraform destroy: the Delete handler and its one DELETE; the framework
\* removes the tracked state when the handler added no error.
Delete ==
    /\ Managed
    /\ state.exists
    /\ \E env \in EnvironmentsAt(provider.client, rtype, "DELETE") :
        LET path == ItemPath(rtype, Strings(state.attrs))
            srv == ServerHandle(store, created, rtype, "DELETE", path, <<>>, <<>>, env)
            call == ClientCall(provider.client, rtype, "DELETE", path, srv.resp)
            out == ResourceDelete(rtype, state.attrs, call)
        IN  /\ state' = IF out = <<>> THEN NoState(rtype) ELSE state
            /\ store' = srv.store
            /\ diags' = out
            /\ last' = OneRequest("Delete", srv.resp, call)
            /\ hist' = Forget(IF out = <<>> THEN "none" ELSE hist.origin)
    /\ UNCHANGED <<calls, provider, rtype, created>>

\* terraform import of id into an address without state: ImportState.
ImportState(id) ==
    /\ Managed
    /\ ~state.exists
    /\ LET out == ResourceImportState(rtype, id, NoState(rtype))
       IN  /\ state' = out.state
           /\ diags' = out.diags
           /\ hist' = [hist EXCEPT !.origin = IF out.state.exists THEN "import" ELSE "none"]
    /\ last' = NoRequest("ImportState", id)
    /\ UNCHANGED <<calls, provider, rtype, store, created>>

\* The IDs an operator imports in a lifecycle: that of the entity the service
\* holds, and one of the single-segment form.
LifecycleImportIDs == (IF store.present THEN {CompositeID(rtype, store)} ELSE {}) \cup {"x"}

Import ==
    /\ rtype \in ResourceTypes
    /\ \E id \in LifecycleImportIDs : ImportState(id)

\* terraform state rm: the address is forgotten, the entity stays.
StateRm ==
    /\ rtype \in ResourceTypes
    /\ state.exists
    /\ state' = NoState(rtype)
    /\ diags' = <<>>
    /\ last' = NoRequest("StateRm", "")
    /\ hist' = [hist EXCEPT !.origin = "none"]
    /\ UNCHANGED <<calls, provider, rtype, store, created>>

\* The service changes a server-owned field of the entity.
ServerChange ==
    /\ store.present
    /\ ServerEdit(EntityType(rtype), store.obj) # store.obj
    /\ store' = [store EXCEPT !.obj = ServerEdit(EntityType(rtype), @)]
    /\ last' = NoRequest("Server", "")
    /\ hist' = Forget(hist.origin)
    /\ UNCHANGED <<calls, provider, rtype, state, created, diags>>

\* The entity is deleted outside Terraform.
ServerDelete ==
    /\ store.present
    /\ store' = NoEntity
    /\ last' = NoRequest("Server", "")
    /\ hist' = Forget(hist.origin)
    /\ UNCHANGED <<calls, provider, rtype, state, created, diags>>

\* The identifier of an entity that exists before Terraform runs, and the
\* model a data source reads from its configuration to look that entity up.
ExistingID == "7"
DataModel(t, id) ==
    [a \in Attributes(EntityType(t)) |->
        IF a = "id" THEN id ELSE IF a = "organization_id" THEN "1" ELSE Null]
\* The identifier the data source is configured with: that of the entity
\* the service holds, if it holds one.
LookupID == IF store.present THEN store.obj.id ELSE ExistingID

\* terraform refresh of a data source: its Read handler and the one GET.
DataRead ==
    /\ Ready
    /\ rtype \in DataSourceTypes
    /\ \E env \in EnvironmentsAt(provider.client, EntityType(rtype), "GET") :
        LET t == EntityType(rtype)
            data == DataModel(rtype, LookupID)
            path == ItemPath(t, Strings(data))
            srv == ServerHandle(store, created, t, "GET", path, <<>>, <<>>, env)
            call == ClientCall(provider.client, t, "GET", path, srv.resp)
            out == DataSourceRead(rtype, data, call, NoState(t))
        IN  /\ state' = out.state
            /\ diags' = out.diags
            /\ last' = OneRequest("DataRead", srv.resp, call)
    /\ UNCHANGED <<calls, provider, rtype, store, created, hist>>

\* terraform init/plan: the provider's Configure runs once.
Configure ==
    /\ ~provider.done
    /\ provider' = Configured(provider.config, provider.env)
    /\ diags' = provider'.diags
    /\ last' = NoRequest("Configure", "")
    /\ UNCHANGED <<calls, rtype, state, store, created, hist>>

Next ==
    \/ Create
    \/ Read
    \/ Update
    \/ Delete
    \/ Import
    \/ StateRm
    \/ ServerChange
    \/ ServerDelete

Spec == Init /\ [][Next]_vars

\* Import on its own: the operator holds an import ID, any string up to
\* MaxImportLen, for an address of any type, and imports it.
InitImport ==
    /\ provider = Configured(TokenInConfig, NoEnvironment)
    /\ rtype \in ResourceTypes
    /\ state = NoState(rtype)
    /\ store = NoEntity
    /\ created = 0
    /\ diags = <<>>
    /\ last \in {NoRequest("Init", id) : id \in ImportIDs}
    /\ hist = NoSnapshot
    /\ calls = NoCalls

ImportPending ==
    /\ last.op = "Init"
    /\ ImportState(last.arg)

NextImport ==
    \/ ImportPending
    \/ StateRm

SpecImport == InitImport /\ [][NextImport]_vars

\* Tier values a service may put on the wire: a prefix, a name, a suffix.
TierPrefixes == {"", "TIER_", "TIER", "tier_"}
TierNames == {"", "DEV", "PRO", "MAX", "Ab", "A_B"}
TierSuffixes == {"", "_V1", "V1", "_v1"}
TierValues == {p \o n \o x : p \in TierPrefixes, n \in TierNames, x \in TierSuffixes}

\* An organization that exists before Terraform runs, with tier on the wire.
ExistingOrganization(tier) ==
    [present |-> TRUE, scope |-> <<>>,
     obj |-> [NewEntity("organization", ExistingID, <<>>, [name |-> "n0"]) EXCEPT !.tier = tier]]

\* Tiers on their own: an organization with any wire tier exists and is
\* imported and managed at a resource address, or read by a data source.
InitTier ==
    /\ provider = Configured(TokenInConfig, NoEnvironment)
    /\ rtype \in {"organization", "data.organization"}
    /\ state = NoState("organization")
    /\ store \in {ExistingOrganization(w) : w \in TierValues}
    /\ created = 0
    /\ diags = <<>>
    /\ last = NoRequest("Init", "")
    /\ hist = NoSnapshot
    /\ calls = NoCalls

NextTier ==
    \/ Import
    \/ Read
    \/ Update
    \/ Create
    \/ DataRead

SpecTier == InitTier /\ [][NextTier]_vars

\* Identifiers of the 64-bit space, in decimal: small ones, the example of
\* the developer guide, 2^53 + 1, 2^63 - 1, 2^63 and 2^64 - 1.
SnowflakeInputs ==
    {"7", "123456789012345678", "9007199254740993",
     "9223372036854775807", "9223372036854775808", "18446744073709551615"}

\* An entity of type t with identifier id that exists before Terraform
\* runs, as the service would have created it for the first configuration.
ExistingEntity(t, id) ==
    LET plan == PlanForCreate(t, CHOOSE cfg \in Configs(t) : TRUE)
    IN  [present |-> TRUE, scope |-> ScopeOf(t, plan),
         obj |-> NewEntity(t, id, ScopeOf(t, plan), CreateBody(t, plan))]

\* Decoding on its own: an entity with any identifier exists and is
\* imported and refreshed at a resource address, or read by a data source.
InitDecode ==
    /\ provider = Configured(TokenInConfig, NoEnvironment)
    /\ rtype \in ResourceTypes \cup DataSourceTypes
    /\ state = NoState(EntityType(rtype))
    /\ store \in {ExistingEntity(EntityType(rtype), id) : id \in SnowflakeInputs}
    /\ created = 0
    /\ diags = <<>>
    /\ last = NoRequest("Init", "")
    /\ hist = NoSnapshot
    /\ calls = NoCalls

NextDecode ==
    \/ Import
    \/ Read
    \/ DataRead

SpecDecode == InitDecode /\ [][NextDecode]_vars

\* Replies a round trip may yield: any status the http client hands on (it
\* follows redirects that carry a Location and swallows 100 Continue), with
\* any body.
TransportStatuses == {101, 200, 201, 204, 300, 304, 400, 401, 404, 500}
TransportBodies ==
    {EmptyBody, NullBody, TextBody("Bad Gateway"),
     MistypedBody("{\"error\":{\"code\":\"E1\",\"message\":\"m\"}}")}
        \cup {ErrorBody(e, c, m) : e \in {"", "failed"}, c \in {"", "E1"},
                                   m \in {"", "key not found"}}
TransportReplies ==
    {Reply(st, b) : st \in TransportStatuses, b \in TransportBodies}
        \cup {NoReply("dial tcp: connect: connection refused")}

\* The transport on its own: a client method of any verb calls doRequest
\* and the round trip yields any reply.
InitTransport ==
    /\ provider = Configured(TokenInConfig, NoEnvironment)
    /\ rtype = "vault"
    /\ state = NoState(rtype)
    /\ store = NoEntity
    /\ created = 0
    /\ diags = <<>>
    /\ last \in {[NoRequest("Init", "") EXCEPT !.resp = r] : r \in TransportReplies}
    /\ hist = NoSnapshot
    /\ calls = NoCalls

RoundTrip ==
    /\ last.op = "Init"
    /\ \E method \in {"GET", "POST", "PATCH", "DELETE"} :
        LET path == IF method = "POST" THEN "/v1/organizations/1/vaults"
                    ELSE "/v1/organizations/1/vaults/" \o ExistingID
            r == doRequest(provider.client, method, path, last.resp, rtype, method # "DELETE")
        IN  last' = [op |-> "doRequest", arg |-> method, requests |-> Len(r.sent),
                     cookies |-> [i \in 1..Len(r.sent) |-> r.sent[i].cookies],
                     resp |-> last.resp, failed |-> r.err # NilError, err |-> r.err]
    /\ UNCHANGED <<calls, provider, rtype, state, store, created, diags, hist>>

NextTransport == RoundTrip

SpecTransport == InitTransport /\ [][NextTransport]_vars

\* Refresh on its own: an address whose Create has just succeeded is
\* refreshed against a service whose 200 replies may have any shape.
InitRefresh ==
    /\ provider = Configured(TokenInConfig, NoEnvironment)
    /\ rtype \in ResourceTypes
    /\ \E cfg \in Configs(rtype), i \in IDEncodings :
        LET plan == PlanForCreate(rtype, cfg)
            path == CollectionPath(rtype, Strings(plan))
            srv == ServerHandle(NoEntity, 0, rtype, "POST", path, ScopeOf(rtype, plan),
                                CreateBody(rtype, plan),
                                [fault |-> "none", errbody |-> NotFoundBody,
                                 idenc |-> i, echo |-> FALSE])
            call == ClientCall(provider.client, rtype, "POST", path, srv.resp)
            out == ResourceCreate(rtype, plan, call, NoState(rtype))
        IN  /\ out.state.exists
            /\ state = out.state
            /\ store = srv.store
            /\ created = srv.n
            /\ diags = out.diags
            /\ last = OneRequest("Create", srv.resp, call)
            /\ hist = Forget("create")
            /\ calls = NoCalls

Refresh ==
    /\ Managed
    /\ state.exists
    /\ \E env \in RefreshEnvironments(rtype) : ReadUnder(env)

NextRefresh ==
    \/ Refresh
    \/ ServerChange

SpecRefresh == InitRefresh /\ [][NextRefresh]_vars

(***************************************************************************)
(* Create against a server whose 2xx replies need not carry the entity.    *)
(***************************************************************************)
Provision ==
    /\ Managed
    /\ ~state.exists
    /\ \E cfg \in Configs(rtype), env \in CreateEnvironments(rtype) : CreateUnder(cfg, env)

NextCreate ==
    \/ Provision
    \/ Read
    \/ Delete

SpecCreate == Init /\ [][NextCreate]_vars

(***************************************************************************)
(* The life of one organization: created, updated, read, deleted, with no  *)
(* change from outside.                                                    *)
(***************************************************************************)
InitOrganization ==
    /\ provider = Configured(TokenInConfig, NoEnvironment)
    /\ rtype = "organization"
    /\ state = NoState(rtype)
    /\ store = NoEntity
    /\ created = 0
    /\ diags = <<>>
    /\ last = NoRequest("Init", "")
    /\ hist = NoSnapshot
    /\ calls = NoCalls

NextOrganization ==
    \/ Create
    \/ Update
    \/ Read
    \/ Delete

SpecOrganization == InitOrganization /\ [][NextOrganization]_vars

(***************************************************************************)
(* Updates of the types whose Update sends mutable attributes, with the    *)
(* PATCH body on record.                                                   *)
(***************************************************************************)
PatchedTypes == {"organization", "vault", "team", "client"}

\* The attributes of a type that a changed configuration updates in place.
MutableAttributes(t) == ConfigAttributes(t) \ RequiresReplace(t)

InitUpdate ==
    /\ InitRefresh
    /\ rtype \in PatchedTypes

Reconfigure ==
    /\ Managed
    /\ state.exists
    /\ \E cfg \in Configs(rtype), env \in Environments(rtype, "PATCH") :
            UpdateUnder(cfg, env, TRUE)
    /\ UNCHANGED <<calls, provider, rtype, created>>

NextUpdate ==
    \/ Reconfigure
    \/ Read

SpecUpdate == InitUpdate /\ [][NextUpdate]_vars

(***************************************************************************)
(* Two handler invocations, for different entities, interleaved on the     *)
(* one client the provider handed out.  An invocation reads c.baseURL,     *)
(* then c.sessionToken, then makes its round trip, then maps the reply.    *)
(***************************************************************************)
Workers == {1, 2}
SharedOps == {"Create", "Read", "Delete"}
\* The pairs of resource types the two invocations are for.
SharedTypes == {<<"vault", "team">>, <<"client_certificate", "vault">>}

MethodOf(op) ==
    CASE op = "Create" -> "POST"
      [] op = "Read" -> "GET"
      [] op = "Delete" -> "DELETE"

\* The environment's choices for a request of an interleaved invocation.
SharedEnvironments(t, method) ==
    {e \in Environments(t, method) :
        /\ e.fault \in {"none", "error", "refused"}
        /\ e.idenc = "string"
        /\ e.errbody # TextBody("Bad Gateway")}

\* A doRequest that keeps the URL of its last request in the client.
doRequestWritesLastURL(c, req) == [c EXCEPT !.baseURL = req.url]

\* The fields of c after a doRequest that built req: doRequest assigns to
\* no field of the client.
doRequestWrites(c, req) == c

\* What invocation w starts from: for a Create nothing, for a Read or a
\* Delete the entity an earlier Create of w made and the state it tracked.
\* The entities of the two invocations differ: the service numbers them.
Begun(c, w, t, op, env) ==
    LET plan == PlanForCreate(t, CHOOSE cfg \in Configs(t) : TRUE)
        made == ServerHandle(NoEntity, w - 1, t, "POST", CollectionPath(t, Strings(plan)),
                             ScopeOf(t, plan), CreateBody(t, plan),
                             [fault |-> "none", errbody |-> NotFoundBody,
                              idenc |-> "string", echo |-> FALSE])
        before == ResourceCreate(t, plan,
                                 ClientCall(c, t, "POST", CollectionPath(t, Strings(plan)),
                                            made.resp),
                                 NoState(t)).state
    IN  [t |-> t, op |-> op, env |-> env, plan |-> plan, pc |-> "begun",
         n |-> IF op = "Create" THEN w - 1 ELSE made.n,
         held |-> IF op = "Create" THEN NoEntity ELSE made.store,
         prior |-> IF op = "Create" THEN NoState(t) ELSE before,
         path |-> IF op = "Create" THEN CollectionPath(t, Strings(plan))
                  ELSE ItemPath(t, Strings(before.attrs)),
         seen |-> [baseURL |-> "", sessionToken |-> ""],
         resp |-> NoReply(""), sent |-> <<>>,
         tracked |-> IF op = "Create" THEN NoState(t) ELSE before,
         diags |-> <<>>]

\* The round trip of invocation k against the service.
Exchanged(k) ==
    ServerHandle(k.held, k.n, k.t, MethodOf(k.op), k.path,
                 IF k.op = "Create" THEN ScopeOf(k.t, k.plan) ELSE <<>>,
                 IF k.op = "Create" THEN CreateBody(k.t, k.plan) ELSE <<>>,
                 k.env)

\* The handler's mapping of the reply resp, for an invocation that read
\* the client as c: the requests sent, the tracked state, the diagnostics.
Mapped(c, k, resp) ==
    LET call == ClientCall(c, k.t, MethodOf(k.op), k.path, resp)
    IN  CASE k.op = "Create" ->
                [sent |-> call.sent,
                 tracked |-> ResourceCreate(k.t, k.plan, call, NoState(k.t)).state,
                 diags |-> ResourceCreate(k.t, k.plan, call, NoState(k.t)).diags]
          [] k.op = "Read" ->
                [sent |-> call.sent,
                 tracked |-> ResourceRead(k.t, k.prior.attrs, call, k.prior).state,
                 diags |-> ResourceRead(k.t, k.prior.attrs, call, k.prior).diags]
          [] k.op = "Delete" ->
                [sent |-> call.sent,
                 tracked |-> IF ResourceDelete(k.t, k.prior.attrs, call) = <<>>
                             THEN NoState(k.t) ELSE k.prior,
                 diags |-> ResourceDelete(k.t, k.prior.attrs, call)]

\* The same invocation run alone on the client Configure made.
Alone(k) ==
    Mapped(ProviderConfigure(provider.config, provider.env).client, k, Exchanged(k).resp)

InitShared ==
    /\ provider = Configured(TokenInConfig, NoEnvironment)
    /\ rtype = "vault"
    /\ state = NoState(rtype)
    /\ store = NoEntity
    /\ created = 0
    /\ diags = <<>>
    /\ last = NoRequest("Init", "")
    /\ hist = NoSnapshot
    /\ \E ts \in SharedTypes :
          calls \in {[w \in Workers |-> Begun(provider.client, w, ts[w], ops[w], envs[w])] :
                        ops \in [Workers -> SharedOps],
                        envs \in [Workers -> SharedEnvironments("vault", "GET")]}

\* client.go 78: the invocation reads c.baseURL.
ReadBaseURL(w) ==
    /\ calls[w].pc = "begun"
    /\ calls' = [calls EXCEPT ![w].pc = "url",
                              ![w].seen.baseURL = provider.client.baseURL]
    /\ UNCHANGED <<rtype, state, store, created, diags, last, hist, provider>>

\* client.go 86-90: the invocation reads c.sessionToken.
ReadSessionToken(w) ==
    /\ calls[w].pc = "url"
    /\ calls' = [calls EXCEPT ![w].pc = "cookie",
                              ![w].seen.sessionToken = provider.client.sessionToken]
    /\ UNCHANGED <<rtype, state, store, created, diags, last, hist, provider>>

\* client.go 93: the round trip.  The client is left as doRequest leaves it.
Exchange(w) ==
    /\ calls[w].pc = "cookie"
    /\ calls' = [calls EXCEPT ![w].pc = "replied",
                              ![w].resp = Exchanged(calls[w]).resp]
    /\ provider' = [provider EXCEPT
                      !.client = doRequestWrites(@, NewRequest(calls[w].seen,
                                                               MethodOf(calls[w].op),
                                                               calls[w].path))]
    /\ UNCHANGED <<rtype, state, store, created, diags, last, hist>>

\* The rest of doRequest, the client method and the handler.
Return(w) ==
    /\ calls[w].pc = "replied"
    /\ calls' = [calls EXCEPT ![w].pc = "done",
                              ![w].sent = Mapped(calls[w].seen, calls[w], calls[w].resp).sent,
                              ![w].tracked = Mapped(calls[w].seen, calls[w], calls[w].resp).tracked,
                              ![w].diags = Mapped(calls[w].seen, calls[w], calls[w].resp).diags]
    /\ UNCHANGED <<rtype, state, store, created, diags, last, hist, provider>>

NextShared ==
    \/ \E w \in Workers : ReadBaseURL(w)
    \/ \E w \in Workers : ReadSessionToken(w)
    \/ \E w \in Workers : Exchange(w)
    \/ \E w \in Workers : Return(w)

SpecShared == InitShared /\ [][NextShared]_vars

(***************************************************************************)
(* The provider's Configure on its own: every provider block and           *)
(* environment drawn from the values below.                                *)
(***************************************************************************)
\* What the provider block can hold for an attribute: absent, not yet
\* known at plan time, the empty string, a value.
ConfigEndpoints == {Null, Unknown, "", "https://e1"}
ConfigTokens == {Null, Unknown, "", "t1"}
\* What os.Getenv can return for the two variables.
EnvEndpoints == {"", "https://e2"}
EnvTokens == {"", "t2"}

ProviderBlocks == [endpoint : ConfigEndpoints, session_token : ConfigTokens]
ProcessEnvironments == [INFERADB_ENDPOINT : EnvEndpoints, INFERADB_SESSION_TOKEN : EnvTokens]

InitConfigure ==
    /\ provider \in {Unconfigured(c, e) : c \in ProviderBlocks, e \in ProcessEnvironments}
    /\ rtype = "vault"
    /\ state = NoState(rtype)
    /\ store = NoEntity
    /\ created = 0
    /\ diags = <<>>
    /\ last = NoRequest("Init", "")
    /\ hist = NoSnapshot
    /\ calls = NoCalls

NextConfigure == Configure

SpecConfigure == InitConfigure /\ [][NextConfigure]_vars

(***************************************************************************)
(* Configure followed by the handlers of every resource and data source.   *)
(***************************************************************************)
\* Provider blocks and environments: the token in the block, the token and
\* the endpoint in the environment, a token with a semicolon, a token with
\* a space, a plain-HTTP endpoint, and an empty token in the block over one
\* in the environment.
TokenInEnvironment == [INFERADB_ENDPOINT |-> "https://e2", INFERADB_SESSION_TOKEN |-> "t2"]
NothingInConfig == [endpoint |-> Null, session_token |-> Null]
OtherSetups ==
    { Unconfigured(NothingInConfig, TokenInEnvironment),
      Unconfigured([endpoint |-> Null, session_token |-> "a;b"], NoEnvironment),
      Unconfigured([endpoint |-> Null, session_token |-> "a b"], NoEnvironment),
      Unconfigured([endpoint |-> "http://e3", session_token |-> "t1"], NoEnvironment),
      Unconfigured([endpoint |-> Null, session_token |-> ""], TokenInEnvironment) }
\* The types the other setups are run with.
OtherSetupTypes == {"team_member", "data.organization"}

\* Every type under the token in the block, two types under the others.
\* The entity a data source looks up exists or does not.
InitProvider ==
    /\ \/ /\ provider = Unconfigured(TokenInConfig, NoEnvironment)
          /\ rtype \in ResourceTypes \cup DataSourceTypes
       \/ /\ provider \in OtherSetups
          /\ rtype \in OtherSetupTypes
    /\ state = NoState(EntityType(rtype))
    /\ store \in IF rtype \in DataSourceTypes
                 THEN {ExistingEntity(EntityType(rtype), ExistingID), NoEntity}
                 ELSE {NoEntity}
    /\ created = 0
    /\ diags = <<>>
    /\ last = NoRequest("Init", "")
    /\ hist = NoSnapshot
    /\ calls = NoCalls

NextProvider ==
    \/ Configure
    \/ Create
    \/ Read
    \/ Update
    \/ Delete
    \/ Import
    \/ DataRead

SpecProvider == InitProvider /\ [][NextProvider]_vars

(***************************************************************************)
(* Properties.                                                             *)
(***************************************************************************)
\* The last step sent a request that was answered with HTTP 404.
Answered404(l) == l.requests = 1 /\ l.resp.neterr = "" /\ l.resp.status = StatusNotFound

\* The attributes an import ID addresses, in segment order, and their number.
ImportAttributes(t) == ScopeAttributes(t) \o <<"id">>
Arity(t) == Len(ImportAttributes(t))

\* Attributes the service owns: those the configuration cannot set.
ServerOwned(t) == Attributes(t) \ ConfigAttributes(t)

\* C1: for organization, team, client, team member, vault user grant and
\* vault team grant, a Read whose GET is answered with HTTP 404 removes the
\* entity from tracked state and reports no error diagnostic.
C1_ReadNotFoundRemoves ==
    (/\ rtype \in {"organization", "team", "client", "team_member",
                   "vault_user_grant", "vault_team_grant"}
     /\ last.op = "Read"
     /\ Answered404(last))
        => (~state.exists /\ diags = <<>>)

\* C2: for the vault resource, a Read whose GET is answered with HTTP 404
\* removes the vault from tracked state and reports no error diagnostic.
C2_VaultReadNotFoundRemoves ==
    (rtype = "vault" /\ last.op = "Read" /\ Answered404(last))
        => (~state.exists /\ diags = <<>>)

\* C3: for every resource type, a Read whose request fails for a reason
\* other than an HTTP 404 response reports an error diagnostic and leaves
\* tracked state exactly as it was before the Read.
C3_ReadFailureKeepsState ==
    [][(last'.op = "Read" /\ last'.failed /\ ~Answered404(last'))
            => (diags' # <<>> /\ state' = state)]_vars

\* C4: for every resource type, a Delete whose DELETE request is answered
\* with HTTP 404 completes without any error diagnostic.
C4_DeleteNotFoundSucceeds ==
    (last.op = "Delete" /\ Answered404(last)) => diags = <<>>

\* C5: every successful certificate Read leaves private_key_pem in tracked
\* state equal to the value it had before the Read (the one Create stored),
\* whatever the GET response contains, reports no error, and refreshes kid
\* and public_key_pem from the response.
C5_ReadKeepsPrivateKey ==
    [][(rtype = "client_certificate" /\ last'.op = "Read" /\ ~last'.failed)
            => (/\ state'.exists
                /\ diags' = <<>>
                /\ state'.attrs.private_key_pem = state.attrs.private_key_pem
                /\ state'.attrs.kid = last'.resp.body.obj.kid
                /\ state'.attrs.public_key_pem = last'.resp.body.obj.public_key_pem)]_vars

\* C5 witness: a certificate made by Create was read successfully from a
\* response that carries no private key, and the stored key is still there.
C5_Witness ==
    /\ rtype = "client_certificate"
    /\ hist.origin = "create"
    /\ last.op = "Read"
    /\ ~last.failed
    /\ "private_key_pem" \notin DOMAIN last.resp.body.obj
    /\ state.attrs.private_key_pem = "PRIVATE KEY"

\* C6: for every resource type, a Create or Update whose request fails with
\* any error, HTTP 404 included, reports an error diagnostic and commits
\* nothing: no tracked state after a failed Create, the prior state after a
\* failed Update.
C6_FailedWriteCommitsNothing ==
    [][(last'.op \in {"Create", "Update"} /\ last'.failed)
            => (/\ diags' # <<>>
                /\ state' = state
                /\ last'.op = "Create" => ~state'.exists)]_vars

\* C6 witness: an Update was answered with HTTP 404 and failed while the
\* address has tracked state.
C6_Witness ==
    /\ last.op = "Update"
    /\ last.failed
    /\ Answered404(last)
    /\ state.exists
    /\ diags # <<>>

\* C7: for every resource type, ImportState given an ID whose number of
\* slash-delimited segments differs from the arity of the type reports an
\* "Invalid Import ID" error that names the expected format, and sets no
\* attribute of tracked state.
C7_WrongArityRejected ==
    (last.op = "ImportState" /\ Len(Split(last.arg)) # Arity(rtype))
        => (/\ ~state.exists
            /\ state.attrs = NullAttrs(rtype)
            /\ Len(diags) = 1
            /\ diags[1].summary = "Invalid Import ID"
            /\ Contains(diags[1].detail, "format"))

C8_Stored(t, segment) ==
    IF t \in {"organization", "team"} THEN TrimSpace(segment) ELSE segment

C9_ImportReadEqualsCreateRead ==
    (/\ last.op = "Read"
     /\ ~last.failed
     /\ hist.origin = "import"
     /\ hist.valid
     /\ \A i \in 1..Arity(rtype) :
            state.attrs[ImportAttributes(rtype)[i]] = hist.snap[ImportAttributes(rtype)[i]])
        => (/\ \A a \in Attributes(rtype) \ {"private_key_pem"} : state.attrs[a] = hist.snap[a]
            /\ rtype = "client_certificate" => state.attrs.private_key_pem = Null)

\* The fields two replies both carry have the same values.
C10_SameFields(create, get) ==
    /\ create.body.form = "entity"
    /\ get.body.form = "entity"
    /\ \A f \in (DOMAIN create.body.obj \cap DOMAIN get.body.obj) \ {"private_key_pem"} :
            create.body.obj[f] = get.body.obj[f]

\* C10: for every resource type, when the GET response carries the same
\* field values as the create response, the tracked state after Create
\* followed immediately by Read equals the tracked state right after
\* Create in every server-owned attribute, private_key_pem of a certificate
\* included.
C10_ReadAfterCreateIsStable ==
    [][(/\ last.op = "Create"
        /\ ~last.failed
        /\ last'.op = "Read"
        /\ ~last'.failed
        /\ C10_SameFields(last.resp, last'.resp))
            => (/\ state'.exists
                /\ \A a \in ServerOwned(rtype) : state'.attrs[a] = state.attrs[a])]_vars

\* C10 witness: a successful Read directly followed a successful Create.
C10_Witness ==
    /\ last.op = "Read"
    /\ ~last.failed
    /\ hist.origin = "create"
    /\ hist.valid
    /\ state.exists

\* The identifier of an entity and the attributes that scope it.
Identity(t) == {"id"} \cup {ScopeAttributes(t)[i] : i \in 1..Len(ScopeAttributes(t))}

\* C11: for every resource type, a successful Read leaves the identifier
\* and the ancestor-scope attributes in tracked state equal to their values
\* before the Read, whatever the GET response contains.
C11_ReadKeepsIdentity ==
    [][(/\ state.exists
        /\ last'.op = "Read"
        /\ ~last'.failed
        /\ state'.exists
        /\ diags' = <<>>)
            => \A a \in Identity(rtype) : state'.attrs[a] = state.attrs[a]]_vars

\* C11 witness: a Read answered with a 200 of another shape has succeeded.
C11_Witness ==
    /\ last.op = "Read"
    /\ ~last.failed
    /\ state.exists
    /\ diags = <<>>
    /\ last.resp.status = StatusOK
    /\ last.resp.body.form = "entity"
    /\ last.resp.body.wrapper = "data"

\* The last step was an organization operation that succeeded on a reply
\* carrying the organization; TierOnWire is the tier that reply carried.
TierReceived ==
    /\ EntityType(rtype) = "organization"
    /\ last.op \in {"Create", "Read", "Update", "DataRead"}
    /\ ~last.failed
    /\ state.exists
    /\ last.resp.body.form = "entity"
    /\ last.resp.body.wrapper = "organization"
TierOnWire == last.resp.body.obj.tier

\* A value of the form TIER_<X>_V1, and its <X>.
C12_WireForm(w) ==
    /\ Len(w) >= Len("TIER_") + Len("_V1")
    /\ SubSeq(w, 1, Len("TIER_")) = "TIER_"
    /\ SubSeq(w, Len(w) - Len("_V1") + 1, Len(w)) = "_V1"
C12_WireName(w) == SubSeq(w, Len("TIER_") + 1, Len(w) - Len("_V1"))

\* C12: tier normalization maps TIER_DEV_V1, TIER_PRO_V1, TIER_MAX_V1 to
\* dev, pro, max, any other value of the form TIER_<X>_V1 to <X> in lower
\* case, and every other value to itself.
C12_TierNormalization ==
    TierReceived =>
        state.attrs.tier =
            (CASE TierOnWire = "TIER_DEV_V1" -> "dev"
               [] TierOnWire = "TIER_PRO_V1" -> "pro"
               [] TierOnWire = "TIER_MAX_V1" -> "max"
               [] OTHER -> IF C12_WireForm(TierOnWire)
                           THEN ToLower(C12_WireName(TierOnWire))
                           ELSE TierOnWire)

EntityReceived ==
    /\ last.op \in {"Read", "DataRead"}
    /\ last.resp.neterr = ""
    /\ last.resp.status = StatusOK
    /\ last.resp.body.form = "entity"
    /\ last.resp.body.wrapper = ExpectedWrapper(EntityType(rtype), "GET")

\* The adapters that store the decoded identifier of the entity.
StoresDecodedID == rtype \in DataSourceTypes \cup {"vault"}

\* C14: for every identifier n of the 64-bit space, decoding a SnowflakeID
\* from the JSON number n and from the JSON string "n" both succeed and
\* yield the decimal representation of n.
C14_SnowflakeDecodesBoth ==
    (EntityReceived /\ HasSnowflakeIDs(EntityType(rtype)))
        => (/\ ~last.failed
            /\ StoresDecodedID => state.attrs.id = last.resp.body.obj.id)

\* C15: for every entity type, a response whose identifier fields are JSON
\* numbers decodes without error to the same string identifiers as the
\* response with those fields as JSON strings (identifiers within int64).
C15_NumberIDsDecodeEverywhere ==
    (/\ EntityReceived
     /\ last.resp.body.idenc = "number"
     /\ \A f \in IDFields(EntityType(rtype)) \cap DOMAIN last.resp.body.obj :
            FitsInt64(last.resp.body.obj[f]))
        => (/\ ~last.failed
            /\ StoresDecodedID => state.attrs.id = last.resp.body.obj.id)

\* doRequest has returned for a round trip that yielded a response.
Responded == last.op = "doRequest" /\ last.resp.neterr = ""
IsAPIError(e) == e.type = "*client.APIError"
Is2xx(status) == status >= 200 /\ status < 300

\* C16: doRequest returns a typed API error carrying the status code for
\* every response whose status is not 2xx and no API error for a 2xx
\* response; IsNotFound of that error is true exactly for status 404.
C16_APIErrorForNon2xx ==
    Responded =>
        /\ ~Is2xx(last.resp.status)
                => (IsAPIError(last.err) /\ last.err.StatusCode = last.resp.status)
        /\ Is2xx(last.resp.status) => ~IsAPIError(last.err)
        /\ IsAPIError(last.err) => (IsNotFound(last.err) <=> last.resp.status = StatusNotFound)

\* C17: the message of the API error is the body's message member when the
\* body is a structured error with a non-empty message, else its error
\* member when the body is a structured error, else the raw response text;
\* its code is the body's code member.  A structured error is a JSON object
\* whose error, code and message members, where present, are strings.
C17_ErrorMessagePrecedence ==
    (Responded /\ IsAPIError(last.err)) =>
        IF last.resp.body.form \in {"error", "entity"}
        THEN /\ last.err.Message = (IF last.resp.body.message # ""
                                    THEN last.resp.body.message
                                    ELSE last.resp.body.error)
             /\ last.err.Code = last.resp.body.code
        ELSE last.err.Message = last.resp.body.raw

\* A configuration attribute or an environment variable supplies a value
\* when it holds a known, non-empty string.
Supplies(v) == v \notin {Null, Unknown, ""}

MissingSessionToken ==
    \E i \in 1..Len(provider.diags) : provider.diags[i].summary = "Missing Session Token"

\* C18: once Configure ran, the client's endpoint and session token are the
\* provider block's values whenever both the provider block and the
\* environment variable supply one; and Configure reports 'Missing Session
\* Token' and hands no client exactly when neither the provider block nor
\* INFERADB_SESSION_TOKEN supplies a non-empty session token.
C18_ConfigurePrecedence ==
    provider.done =>
        /\ (provider.client # NilClient /\ Supplies(provider.config.endpoint)
                /\ Supplies(provider.env["INFERADB_ENDPOINT"]))
              => provider.client.baseURL = provider.config.endpoint
        /\ (provider.client # NilClient /\ Supplies(provider.config.session_token)
                /\ Supplies(provider.env["INFERADB_SESSION_TOKEN"]))
              => provider.client.sessionToken = provider.config.session_token
        /\ MissingSessionToken <=> provider.client = NilClient
        /\ MissingSessionToken <=>
              (~Supplies(provider.config.session_token)
                  /\ ~Supplies(provider.env["INFERADB_SESSION_TOKEN"]))

\* The value a server reads from the text of a cookie in a Cookie header:
\* a pair of enclosing double quotes is not part of it.
CookieValueRead(text) ==
    IF Len(text) > 1 /\ SubSeq(text, 1, 1) = "\"" /\ SubSeq(text, Len(text), Len(text)) = "\""
    THEN SubSeq(text, 2, Len(text) - 1)
    ELSE text

\* C19: every request a handler sends is sent by a configured provider
\* and carries exactly the cookie infera_session, whose value is the
\* non-empty session token Configure resolved.
C19_CookieOnEveryRequest ==
    last.requests >= 1 =>
        /\ Ready
        /\ provider.client.sessionToken # ""
        /\ \A i \in 1..Len(last.cookies) :
              /\ Len(last.cookies[i]) = 1
              /\ last.cookies[i][1].Name = "infera_session"
              /\ CookieValueRead(last.cookies[i][1].Value) = provider.client.sessionToken

\* The handlers that talk to the server, and the two that do not.
TalksToServer ==
    \/ last.op \in {"Create", "Read", "Delete", "DataRead"}
    \/ last.op = "Update" /\ rtype # "client_certificate"
TalksToNobody ==
    \/ last.op = "ImportState"
    \/ last.op = "Update" /\ rtype = "client_certificate"

LookupFailed ==
    /\ last.op = "DataRead"
    /\ \/ last.resp.neterr # ""
       \/ last.resp.status >= 400

\* C22: for every data source, a Read whose GET failed, a 404 included,
\* reports an error diagnostic and sets no state.
C22_DataSourceLookupFailureIsError ==
    LookupFailed => (diags # <<>> /\ ~state.exists /\ state = NoState(EntityType(rtype)))

\* A team data source whose GET was answered 404: an error, no state.
C22_Witness ==
    /\ rtype = "data.team"
    /\ last.op = "DataRead"
    /\ Answered404(last)
    /\ diags # <<>>
    /\ ~state.exists

\* The step is an Update of a client certificate.
CertificateUpdated == rtype = "client_certificate" /\ last'.op = "Update"

UpdateNotSupported ==
    \E i \in 1..Len(diags) : diags[i].summary = "Update Not Supported"

\* C23, first part: an Update of a client certificate reports 'Update Not
\* Supported', sends no request and leaves the tracked state, and the
\* certificate on the server, as they were.
C23_UpdateChangesNothing ==
    CertificateUpdated =>
        /\ \E i \in 1..Len(diags') : diags'[i].summary = "Update Not Supported"
        /\ last'.requests = 0
        /\ state' = state
        /\ store' = store

\* C23, as stated: the tracked attributes of a client certificate change
\* only through Create, Read or Delete of the adapter (the host forgetting
\* the address is no operation of the adapter).
C23_OnlyCreateReadDelete ==
    [][/\ C23_UpdateChangesNothing
       /\ (rtype = "client_certificate" /\ state' # state)
             => last'.op \in {"Create", "Read", "Delete", "StateRm"}]_vars

\* C23: an Update of a client certificate changes nothing, and the tracked
\* attributes of a client certificate change only through the adapter's
\* Create, Read, Delete or ImportState (the host forgetting the address is
\* no operation of the adapter).
C23_UpdateNotSupported ==
    [][/\ C23_UpdateChangesNothing
       /\ (rtype = "client_certificate" /\ state' # state)
             => last'.op \in {"Create", "Read", "Delete", "ImportState", "StateRm"}]_vars

\* An Update of a tracked client certificate has reported the error.
C23_Witness ==
    /\ rtype = "client_certificate"
    /\ last.op = "Update"
    /\ last.requests = 0
    /\ state.exists
    /\ UpdateNotSupported

\* C24: a Read of a client certificate whose GET was answered with HTTP 404
\* removes the certificate from tracked state and reports no error.
C24_CertificateReadNotFoundRemoves ==
    (rtype = "client_certificate" /\ last.op = "Read" /\ Answered404(last))
        => (~state.exists /\ diags = <<>>)

\* A Read of a client certificate, answered 404, removed it.
C24_Witness ==
    /\ rtype = "client_certificate"
    /\ last.op = "Read"
    /\ Answered404(last)
    /\ ~state.exists
    /\ diags = <<>>

\* C30: a Delete of a client certificate whose request failed otherwise
\* than by an HTTP 404 answer reports an error diagnostic and keeps the
\* certificate in tracked state.
C30_CertificateDeleteFailureIsError ==
    (/\ rtype = "client_certificate"
     /\ last.op = "Delete"
     /\ last.failed
     /\ ~Answered404(last))
        => (diags # <<>> /\ state.exists)

\* C26: after an ImportState that reported no error, every attribute it is
\* to set, the scope ids and the entity's own id, holds a non-empty string.
C26_ImportSetsNonEmpty ==
    (last.op = "ImportState" /\ diags = <<>>)
        => \A i \in 1..Arity(rtype) :
              /\ state.attrs[ImportAttributes(rtype)[i]] # Null
              /\ state.attrs[ImportAttributes(rtype)[i]] # ""

\* C27: whenever Create completed without an error diagnostic, the tracked
\* state it committed carries a non-empty identifier, whatever 2xx reply
\* the server sent.
C27_CreateCommitsIdentifier ==
    (last.op = "Create" /\ diags = <<>>)
        => (state.exists /\ state.attrs.id \notin {"", Null, Unknown})

\* C29: whenever Create reported an error and committed no tracked state,
\* the server holds no entity that this Create made: the POST did not
\* create one.
C29_FailedCreateLeavesNoEntity ==
    [][(last'.op = "Create" /\ diags' # <<>> /\ ~state'.exists)
            => (created' = created /\ store' = store)]_vars

\* The step is a handler call of kind op whose request succeeded.
Succeeded(op) == last'.op = op /\ ~last'.failed /\ diags' = <<>>

\* C25: for an organization, a Create with tier dev leaves a non-empty id
\* and tier dev in tracked state; an Update to tier pro leaves tier pro with
\* id and created_at as they were, and so does every later Read; and a Read
\* after the organization was deleted, answered 404, drops it from tracked
\* state without an error.
C25_OrganizationLifecycle ==
    [][/\ (Succeeded("Create") /\ store'.present /\ store'.obj.tier = "TIER_DEV_V1")
            => (/\ state'.exists
                /\ state'.attrs.id \notin {"", Null, Unknown}
                /\ state'.attrs.tier = "dev")
       /\ (Succeeded("Update") /\ store'.present /\ store'.obj.tier = "TIER_PRO_V1")
            => (/\ state'.attrs.tier = "pro"
                /\ state'.attrs.id = state.attrs.id
                /\ state'.attrs.created_at = state.attrs.created_at)
       /\ (Succeeded("Read") /\ store.present /\ store.obj.tier = "TIER_PRO_V1")
            => (/\ state'.attrs.tier = "pro"
                /\ state'.attrs.id = state.attrs.id
                /\ state'.attrs.created_at = state.attrs.created_at)
       /\ (last'.op = "Read" /\ Answered404(last') /\ ~store.present)
            => (~state'.exists /\ diags' = <<>>)]_vars

\* C25 without its last part: Create, Update and the Reads after them.
C25_UntilDelete ==
    [][/\ (Succeeded("Create") /\ store'.present /\ store'.obj.tier = "TIER_DEV_V1")
            => (/\ state'.exists
                /\ state'.attrs.id \notin {"", Null, Unknown}
                /\ state'.attrs.tier = "dev")
       /\ (Succeeded("Update") /\ store'.present /\ store'.obj.tier = "TIER_PRO_V1")
            => (/\ state'.attrs.tier = "pro"
                /\ state'.attrs.id = state.attrs.id
                /\ state'.attrs.created_at = state.attrs.created_at)
       /\ (Succeeded("Read") /\ store.present /\ store.obj.tier = "TIER_PRO_V1")
            => (/\ state'.attrs.tier = "pro"
                /\ state'.attrs.id = state.attrs.id
                /\ state'.attrs.created_at = state.attrs.created_at)]_vars

\* The planned value of attribute a differs from its prior value.
PlannedChange(a) ==
    /\ last.plan[a] # Unknown
    /\ last.plan[a] # last.prior[a]

\* C28: the PATCH body of an Update of an organization, a vault, a team or
\* a client holds every mutable attribute whose planned value differs from
\* its prior value, with the planned value (the empty string for null).
C28_PatchCarriesEveryChange ==
    (last.op = "Update" /\ rtype \in PatchedTypes)
        => \A a \in MutableAttributes(rtype) :
              PlannedChange(a)
                  => (a \in DOMAIN last.body /\ last.body[a] = ValueString(last.plan[a]))

\* C28 for the changes to a value that is not empty.
C28_PatchCarriesNonEmptyChanges ==
    (last.op = "Update" /\ rtype \in PatchedTypes)
        => \A a \in MutableAttributes(rtype) :
              (PlannedChange(a) /\ ValueString(last.plan[a]) # "")
                  => (a \in DOMAIN last.body /\ last.body[a] = ValueString(last.plan[a]))

\* C21: the base URL and the session token of the shared client stay as
\* Configure set them, and each of two interleaved handler invocations for
\* different entities sends the request, tracks the state and reports the
\* diagnostics it would when run alone.
C21_InterleavingChangesNothing ==
    /\ provider.client = ProviderConfigure(provider.config, provider.env).client
    /\ \A w \in DOMAIN calls :
        /\ calls[w].pc \in {"url", "cookie", "replied", "done"}
              => calls[w].seen.baseURL = ProviderConfigure(provider.config, provider.env).client.baseURL
        /\ calls[w].pc \in {"cookie", "replied", "done"}
              => NewRequest(calls[w].seen, MethodOf(calls[w].op), calls[w].path)
                   = NewRequest(ProviderConfigure(provider.config, provider.env).client,
                                MethodOf(calls[w].op), calls[w].path)
        /\ calls[w].pc = "done"
              => /\ calls[w].sent = Alone(calls[w]).sent
                 /\ calls[w].tracked = Alone(calls[w]).tracked
                 /\ calls[w].diags = Alone(calls[w]).diags

\* Both invocations finished, one of them a Create that committed its
\* entity and the other a Delete that removed its own, and both sent a
\* request with the session cookie.
C21_Witness ==
    /\ DOMAIN calls = Workers
    /\ \A w \in Workers : calls[w].pc = "done" /\ Len(calls[w].sent) = 1
                          /\ calls[w].sent[1].cookies # <<>>
    /\ calls[1].op = "Create" /\ calls[1].tracked.exists /\ calls[1].diags = <<>>
    /\ calls[2].op = "Delete" /\ ~calls[2].tracked.exists /\ calls[2].diags = <<>>
    /\ calls[1].t # calls[2].t
====
